---- MODULE Spec2Model ----
(***************************************************************************)
(* Managed display registry and refresh engine of loanickname-bot          *)
(* (src/unnamed/part_004): the provider read cache, the board registry,    *)
(* board discovery, ensure-or-create and the refresh passes.               *)
(***************************************************************************)
EXTENDS Integers, Sequences, FiniteSets, TLC

\* ------------------------------------------------------------------ bounds
\* cachedGet invocations in one behaviour of SpecCache
MaxCalls == 2

\* suspending handlers (commands, scans, refresh passes) started in one behaviour
MaxHandlers == 2
\* message ids the platform hands out in one behaviour
MaxMsgs == 4

\* sibling records in one provider answer
MaxChars == 3

\* ------------------------------------------------------- program constants
\* const TTL_MS = 60 * 1000
TTL_MS == 60000
\* async function loginWithRetry(maxTries = 5)
maxTries == 5

VARIABLES
  cache,     \* Map url -> { data, ts }; NoEntry where the map has no key
  clock,     \* the last value read from Date.now()
  calls,     \* the cachedGet invocations, by invocation number
  msgs,      \* the platform's messages, by message id
  nextMsg,   \* the id the platform gives the next message sent
  boards,    \* let boards: the registry list [{channelId, messageId}]
  boardsSet, \* let boardsSet: the key index of boards
  boardsFile,\* the content of boards.json
  diskOk,    \* whether fs.writeFileSync succeeds (false on a read-only volume)
  links,     \* let links: the link store, in insertion order
  linksFile, \* the content of links.json
  timer,     \* "off" until startAutoRefresh has armed the interval timer
  procs,     \* the started handlers (commands, scans, ticks), by start order
  started,   \* how many handlers have started
  embed,     \* the buildBoardEmbed invocation followed: its position and rows
  boot       \* start-up: where the process is, and what it found on disk

cacheVars == <<cache, clock, calls>>
platformVars == <<msgs, nextMsg>>
registryVars == <<boards, boardsSet, boardsFile>>
boardVars == <<msgs, nextMsg, boards, boardsSet, boardsFile, diskOk, links,
               linksFile, timer, procs, started, embed, boot>>
vars == <<cache, clock, calls, msgs, nextMsg, boards, boardsSet, boardsFile,
          diskOk, links, linksFile, timer, procs, started, embed, boot>>

\* pc is "module" before the module body has run, "crashed" when it threw,
\* "loaded" once links, boards and boardsSet are set.  linksJson and boardsJson
\* say what links.json and boards.json are when the module reads them: "absent",
\* "unparsable" (no JSON text), "null" (the JSON text null) or "valid" (the
\* value saveJSON wrote); linksNull says that `links` is null.  login is where
\* loginWithRetry is: "idle" before it is called, "trying" while suspended in
\* client.login, "waiting" in wait(2000 * attempt), "ok" when it has returned,
\* "thrown" when it has thrown; attempt is its counter.
Booted == [pc |-> "loaded", linksJson |-> "valid", boardsJson |-> "valid",
           linksNull |-> FALSE, login |-> "ok", attempt |-> 0]

\* no buildBoardEmbed invocation is being followed
NoEmbed ==
  [pc |-> "idle", ids |-> << >>, idx |-> 0, main |-> "", seen |-> << >>,
   rows |-> << >>, description |-> << >>, text |-> ""]

\* ================================================================== cache
\* The request urls (one per provider entity and endpoint).  The payload of
\* a provider answer is named after the invocation whose request it answers,
\* so that two answers are never confused; 0 is "no payload".
Names == {"Foo", "Bar"}
\* getSiblings, getProfile, getArkPassive: the url of the entity's endpoint
SiblingsUrl(name) == "/characters/" \o name \o "/siblings"
ProfileUrl(name) == "/armories/characters/" \o name \o "/profiles"
ArkPassiveUrl(name) == "/armories/characters/" \o name \o "/arkpassive"
\* the keys the cache can hold, and those the cache specification requests
Endpoints ==
  {SiblingsUrl(n) : n \in Names} \cup {ProfileUrl(n) : n \in Names}
    \cup {ArkPassiveUrl(n) : n \in Names}
Urls == {SiblingsUrl(n) : n \in Names}
CallIds == 1..MaxCalls
NoEntry == [data |-> 0, ts |-> -1]

\* The amounts by which Date.now() has moved between two reads of it.
ClockSteps == {TTL_MS - 1, TTL_MS}

\* An invocation: its arguments, the value of `now` and of `c` it read, whether
\* it went to the provider (live), what it returned, and which invocations had
\* already ended when it started (prior).
NewCall ==
  [phase |-> "new", url |-> "", force |-> FALSE, now |-> 0,
   seen |-> NoEntry, live |-> FALSE, data |-> 0, prior |-> {}]
Ended == {i \in CallIds : calls[i].phase \in {"returned", "thrown"}}

\* if (!force && c && now - c.ts < TTL_MS) return c.data;
UseCacheInverted(force, c, now) ==
  ~force /\ c # NoEntry /\ now - c.ts > TTL_MS
UseCacheLe(force, c, now) ==
  ~force /\ c # NoEntry /\ now - c.ts <= TTL_MS
UseCache(force, c, now) ==
  ~force /\ c # NoEntry /\ now - c.ts < TTL_MS

\* cachedGet(url, {force}) up to its first suspension point: either the
\* stored payload is returned at once, or the call is suspended in api.get.
CachedGetStart(i, url, force, now) ==
  /\ calls[i].phase = "new"
  /\ \A h \in CallIds : h < i => calls[h].phase # "new"
  /\ clock' = now
  /\ LET c == cache[url] IN
       IF UseCache(force, c, now)
       THEN /\ calls' = [calls EXCEPT ![i] =
                 [phase |-> "returned", url |-> url, force |-> force,
                  now |-> now, seen |-> c, live |-> FALSE, data |-> c.data,
                  prior |-> Ended]]
       ELSE /\ calls' = [calls EXCEPT ![i] =
                 [phase |-> "fetching", url |-> url, force |-> force,
                  now |-> now, seen |-> c, live |-> TRUE, data |-> 0,
                  prior |-> Ended]]
  /\ UNCHANGED <<cache, boardVars>>

\* api.get resolved: cache.set(url, { data, ts: now }); return data;
CachedGetResolve(i) ==
  /\ calls[i].phase = "fetching"
  /\ cache' = [cache EXCEPT ![calls[i].url] = [data |-> i, ts |-> calls[i].now]]
  /\ calls' = [calls EXCEPT ![i].phase = "returned", ![i].data = i]
  /\ UNCHANGED <<clock, boardVars>>

\* api.get rejected: the rejection leaves cachedGet through the await.
CachedGetRejectEvict(i) ==
  /\ calls[i].phase = "fetching"
  /\ cache' = [cache EXCEPT ![calls[i].url] = NoEntry]
  /\ calls' = [calls EXCEPT ![i].phase = "thrown"]
  /\ UNCHANGED <<clock, boardVars>>
CachedGetReject(i) ==
  /\ calls[i].phase = "fetching"
  /\ calls' = [calls EXCEPT ![i].phase = "thrown"]
  /\ UNCHANGED <<cache, clock, boardVars>>

\* the registry side at rest, for the specifications that leave it alone
BoardsAtRest ==
  /\ msgs = << >> /\ nextMsg = 1
  /\ boards = << >> /\ boardsSet = {} /\ boardsFile = << >>
  /\ diskOk = TRUE /\ links = << >> /\ linksFile = << >> /\ timer = "off"
  /\ procs = << >> /\ started = 0
  /\ embed = NoEmbed
  /\ boot = Booted

InitCache ==
  /\ BoardsAtRest
  /\ cache = [u \in Endpoints |-> NoEntry]
  /\ clock = 0
  /\ calls = [i \in CallIds |-> NewCall]

NextCache ==
  \/ \E i \in CallIds, u \in Urls, f \in BOOLEAN, d \in ClockSteps :
        CachedGetStart(i, u, f, clock + d)
  \/ \E i \in CallIds : CachedGetResolve(i)
  \/ \E i \in CallIds : CachedGetReject(i)

SpecCache == InitCache /\ [][NextCache]_vars

\* ----------------------------------------------------------- cache claims
Started(i) == calls[i].phase # "new"
Age(i) == calls[i].now - calls[i].seen.ts
\* j started after i had ended, on the same url, both without force
Successive(i, j) ==
  /\ Started(j) /\ i \in calls[j].prior
  /\ calls[i].url = calls[j].url
  /\ ~calls[i].force /\ ~calls[j].force
\* the entry j read is the one i stored: no other invocation stored one between
ReadsEntryOf(i, j) ==
  /\ calls[i].live /\ calls[i].phase = "returned"
  /\ calls[j].seen = [data |-> calls[i].data, ts |-> calls[i].now]

C8_StoredPayloadIsFresh ==
  \A i \in CallIds :
    (Started(i) /\ ~calls[i].live)
      => /\ ~calls[i].force
         /\ calls[i].seen # NoEntry
         /\ Age(i) < TTL_MS
         /\ calls[i].data = calls[i].seen.data
C8_StaleOrForcedGoesLive ==
  \A i \in CallIds :
    (Started(i) /\ (calls[i].force \/ calls[i].seen = NoEntry \/ Age(i) >= TTL_MS))
      => calls[i].live
C8_AnswerReplacesEntry ==
  \A i \in CallIds :
    (calls[i].phase = "fetching" /\ calls'[i].phase = "returned")
      => /\ calls'[i].data # 0
         /\ cache'[calls[i].url] = [data |-> calls'[i].data, ts |-> calls[i].now]
C8_StaleNeverServed ==
  /\ [](C8_StoredPayloadIsFresh /\ C8_StaleOrForcedGoesLive)
  /\ [][C8_AnswerReplacesEntry]_vars
C8_Witness ==
  \E i \in CallIds :
    /\ calls[i].phase = "returned" /\ calls[i].live /\ ~calls[i].force
    /\ calls[i].seen # NoEntry /\ Age(i) = TTL_MS
    /\ cache[calls[i].url] = [data |-> calls[i].data, ts |-> calls[i].now]

\* C9: when the provider request of a cachedGet call fails, the call throws
\* and the cache (the entry of that url included) is what it was.
C9_FailureLeavesEntry ==
  [][\A i \in CallIds :
       (calls[i].phase = "fetching" /\ calls'[i].phase \notin {"fetching", "returned"})
         => (calls'[i].phase = "thrown" /\ cache' = cache)]_vars
C9_Witness ==
  \E i \in CallIds :
    /\ calls[i].phase = "thrown"
    /\ calls[i].seen # NoEntry
    /\ cache[calls[i].url] = calls[i].seen

\* C35: the timestamp of the cache entry of a url never decreases, however
\* the cachedGet calls for the url overlap.
C35_TsStep == \A u \in Endpoints : cache'[u].ts >= cache[u].ts
C35_TsNeverDecreases == [][C35_TsStep]_vars

\* ========================================================= platform model
\* The guild's text channels.
Channels == {"c1", "c2"}
MsgIds == 1..MaxMsgs
\* A message: its channel ("" while the id is unused), whether it is still
\* there (not deleted), whether client.user wrote it, the footer of its first embed ("board" is
\* `${BOARD_TAG} 마지막 갱신: ...`, "personal" is `${BOARD_TAG} 개인 • ...`,
\* "none" is no embed footer), and whether it is among the channel's
\* SCAN_LIMIT_PER_CHANNEL most recent messages.
NoMsg == [ch |-> "", alive |-> FALSE, mine |-> FALSE, footer |-> "none",
          recent |-> FALSE]
BoardMsg(c) == [ch |-> c, alive |-> TRUE, mine |-> TRUE, footer |-> "board",
                recent |-> TRUE]
PersonalMsg(c) == [ch |-> c, alive |-> TRUE, mine |-> TRUE, footer |-> "personal",
                   recent |-> TRUE]
Exists(c, m) == m \in MsgIds /\ msgs[m].alive /\ msgs[m].ch = c

\* function hasBoardMarker(message): the footer text includes BOARD_TAG
hasBoardMarker(message) == message.footer \in {"board", "personal"}

\* ch.messages.fetch({ limit: SCAN_LIMIT_PER_CHANNEL }): newest first
RECURSIVE Descending(_)
Descending(S) ==
  IF S = {} THEN << >>
  ELSE LET m == CHOOSE x \in S : \A y \in S : y <= x
       IN <<m>> \o Descending(S \ {m})
RecentMessages(c) == Descending({m \in MsgIds : Exists(c, m) /\ msgs[m].recent})
\* the messages of a fetched window that the engine wrote and that carry the marker
MarkedMine(window) ==
  SelectSeq(window, LAMBDA m : msgs[m].mine /\ hasBoardMarker(msgs[m]))

\* ============================================================== registry
\* const boardsKey = (c, m) => `${c}:${m}`
boardsKey(c, m) == c \o ":" \o ToString(m)
KeysOf(list) == {boardsKey(list[k].channelId, list[k].messageId) : k \in 1..Len(list)}
\* saveJSON(BOARDS_PATH, boards): a failed write is swallowed
saveJSON(file, obj) == IF diskOk THEN obj ELSE file

\* function addBoard(channelId, messageId), on the registry
\* R = [list |-> boards, set |-> boardsSet, file |-> boards.json]
AddBoardNoCheck(R, channelId, messageId) ==
  LET list == Append(R.list, [channelId |-> channelId, messageId |-> messageId])
  IN [list |-> list, set |-> R.set \cup {boardsKey(channelId, messageId)},
      file |-> saveJSON(R.file, list)]
addBoardRollback(R, channelId, messageId) ==
  LET key == boardsKey(channelId, messageId) IN
  IF key \in R.set \/ ~diskOk THEN R
  ELSE LET list == Append(R.list, [channelId |-> channelId, messageId |-> messageId])
       IN [list |-> list, set |-> R.set \cup {key}, file |-> saveJSON(R.file, list)]
addBoard(R, channelId, messageId) ==
  LET key == boardsKey(channelId, messageId) IN
  IF key \in R.set THEN R
  ELSE LET list == Append(R.list, [channelId |-> channelId, messageId |-> messageId])
       IN [list |-> list, set |-> R.set \cup {key}, file |-> saveJSON(R.file, list)]

Registry == [list |-> boards, set |-> boardsSet, file |-> boardsFile]
SetRegistry(R) ==
  /\ boards' = R.list
  /\ boardsSet' = R.set
  /\ boardsFile' = R.file

\* ============================================================== handlers
\* A started handler.  arr/aliased/idx are the state of a `for (const b of
\* boards)` loop: the iterator keeps the array object it started on, which is
\* the live registry list (aliased) until board-disable replaces `boards` by a
\* new array; from then on the iterator walks the old array, arr.
\* prior (the handlers that had finished when this one started), flaky (a
\* platform request of it failed although its object exists), had (the channel
\* held a managed message when it started), indexed (the registry held an
\* entry of the channel when it started), via (how ensureBoardInChannel
\* resolved, or what started the pass), sent, and found and added (of a scan)
\* record what happened, for the claims; skipped holds the channels whose
\* ch.messages.fetch threw in a scan.
\* Of a refresh pass: cur is the loop variable b (or the link entry), entries
\* the Object.entries(links) of refreshAllPersonalOnce; snapshot is the
\* registry list when the pass started, and attempted/edited (of the boards)
\* and pattempted/pedited (of the personal messages) what it went through;
\* linked holds the users that had a main when the pass started.
\* Of /link and /mychars-pin: user and name are the command's user and name
\* option; me is the entry object ensurePersonalPinnedInChannel read from links
\* (`me`), and live whether links still holds that very object; existing is the
\* id of the personal message it found, 0 if none; stored records that the
\* handler has written the link store.  stale holds the users whose
\* entry object in `entries` is no longer the one links holds.
NewProc(kind) ==
  [kind |-> kind, self |-> 0, pc |-> "start", ch |-> "", arr |-> << >>,
   user |-> "", name |-> "", me |-> [main |-> "", personal |-> [channelId |-> "", messageId |-> 0]],
   live |-> FALSE, existing |-> 0, stale |-> {}, stored |-> FALSE,
   aliased |-> FALSE, idx |-> 0, order |-> << >>, found |-> 0, result |-> 0,
   prior |-> {}, flaky |-> FALSE, skipped |-> {}, linked |-> {}, had |-> FALSE,
   indexed |-> FALSE, via |-> "", sent |-> 0,
   added |-> 0, cur |-> 0, entries |-> << >>, snapshot |-> << >>,
   attempted |-> << >>, edited |-> << >>, pattempted |-> << >>, pedited |-> << >>]
\* a handler that has returned holds no loop state any more
AtEnd(pr, pc) ==
  [pr EXCEPT !.pc = pc, !.arr = << >>, !.aliased = FALSE, !.idx = 0,
             !.order = << >>, !.cur = 0, !.entries = << >>, !.stale = {},
             !.me = NewProc("").me, !.live = FALSE, !.existing = 0]
Finished == {p \in 1..started : procs[p].pc \in {"done", "failed"}}
Array(p) == IF procs[p].aliased THEN boards ELSE procs[p].arr
\* whether channel c holds a live managed (engine-written, marked) message
HasManaged(c) ==
  \E m \in MsgIds : Exists(c, m) /\ msgs[m].mine /\ hasBoardMarker(msgs[m])

\* the first index >= from of an entry of arr for channel c, 0 if none
NextEntry(arr, from, c) ==
  LET S == {k \in from..Len(arr) : arr[k].channelId = c}
  IN IF S = {} THEN 0 ELSE CHOOSE k \in S : \A j \in S : k <= j

\* ---------------------------------------------------------- /board-enable
\* The steps of a handler that neither read nor write the state modelled here
\* (the command's arrival, deferReply, client.channels.fetch, buildBoardEmbed)
\* are taken together with the step that follows them.

\* ensureBoardInChannel returned msg to the handler: addBoard(channelId, msg.id)
EnableReturn(pr, m, via) ==
  LET R == addBoard(Registry, pr.ch, m) IN
  /\ SetRegistry(R)
  /\ procs' = [procs EXCEPT ![pr.self] =
       [AtEnd(pr, "done") EXCEPT !.result = m, !.via = via]]

\* Walk `for (const b of boards)` from index `from` to the next entry of the
\* channel and suspend in ch.messages.fetch(b.messageId); past the end of the
\* array, suspend in ch.messages.fetch({ limit }).
EnableLoopFromWindow(pr, from) ==
  [pr EXCEPT !.pc = "window", !.idx = 0]
EnableLoopFrom(pr, from) ==
  LET arr == IF pr.aliased THEN boards ELSE pr.arr
      k == NextEntry(arr, from, pr.ch)
  IN [pr EXCEPT !.pc = IF k = 0 THEN "window" ELSE "entry", !.idx = k]

\* /board-enable in channel c: client.channels.fetch answers (ok), or fails or
\* yields no guild text channel (~ok) and the handler reports the failure.
BoardEnableStart(c, ok) ==
  /\ started < MaxHandlers
  /\ started' = started + 1
  /\ LET pr == [NewProc("enable") EXCEPT
                  !.self = started + 1, !.ch = c, !.prior = Finished,
                  !.had = HasManaged(c), !.aliased = TRUE,
                  !.indexed = NextEntry(boards, 1, c) # 0]
     IN procs' = Append(procs, IF ok THEN EnableLoopFrom(pr, 1)
                               ELSE [pr EXCEPT !.pc = "failed", !.aliased = FALSE])
  /\ UNCHANGED <<msgs, nextMsg, registryVars, diskOk, links, linksFile, timer, cacheVars, embed, boot>>

\* ch.messages.fetch(b.messageId).catch(() => null) answered: ok is false when
\* the request failed although the message exists.
EnableEntryFetched(p, ok) ==
  /\ procs[p].kind = "enable" /\ procs[p].pc = "entry"
  /\ LET b == Array(p)[procs[p].idx]
         there == Exists(procs[p].ch, b.messageId)
     IN IF ok /\ there
        THEN EnableReturn(procs[p], b.messageId, "entry")
        ELSE /\ procs' = [procs EXCEPT ![p] =
                  EnableLoopFrom([procs[p] EXCEPT !.flaky = @ \/ there],
                                 procs[p].idx + 1)]
             /\ UNCHANGED registryVars
  /\ UNCHANGED <<msgs, nextMsg, diskOk, links, linksFile, timer, started, cacheVars, embed, boot>>

\* the message ensureBoardInChannel reuses from a fetched window, 0 if none:
\* [...msgs.values()].find(m => m.author?.id === client.user.id && hasBoardMarker(m))
Mine(window) ==
  LET mm == MarkedMine(window) IN IF mm = << >> THEN 0 ELSE mm[1]

\* ch.messages.fetch({ limit: SCAN_LIMIT_PER_CHANNEL }).catch(() => null)
\* answered; without a message to reuse, buildBoardEmbed and ch.send follow.
EnableWindowFetchedBlind(p, ok) ==
  /\ procs[p].kind = "enable" /\ procs[p].pc = "window"
  /\ procs' = [procs EXCEPT ![p] = [AtEnd(procs[p], "send") EXCEPT !.flaky = @ \/ ~ok]]
  /\ UNCHANGED registryVars
  /\ UNCHANGED <<msgs, nextMsg, diskOk, links, linksFile, timer, started, cacheVars, embed, boot>>
EnableWindowFetched(p, ok) ==
  /\ procs[p].kind = "enable" /\ procs[p].pc = "window"
  /\ LET window == IF ok THEN RecentMessages(procs[p].ch) ELSE << >>
         mine == Mine(window)
     IN IF mine # 0
        THEN EnableReturn(procs[p], mine, "window")
        ELSE /\ procs' = [procs EXCEPT ![p] =
                  [AtEnd(procs[p], "send") EXCEPT !.flaky = @ \/ ~ok]]
             /\ UNCHANGED registryVars
  /\ UNCHANGED <<msgs, nextMsg, diskOk, links, linksFile, timer, started, cacheVars, embed, boot>>

\* ch.send({ embeds: [embed] }) answered: the platform holds a new message.
EnableSentRegisters(p) ==
  /\ procs[p].kind = "enable" /\ procs[p].pc = "send"
  /\ nextMsg <= MaxMsgs
  /\ msgs' = [msgs EXCEPT ![nextMsg] = BoardMsg(procs[p].ch)]
  /\ nextMsg' = nextMsg + 1
  /\ LET e == [channelId |-> procs[p].ch, messageId |-> nextMsg]
         R == addBoard([list |-> Append(boards, e), set |-> boardsSet,
                        file |-> boardsFile], procs[p].ch, nextMsg)
     IN /\ SetRegistry(R)
        /\ procs' = [procs EXCEPT ![p] =
             [AtEnd(procs[p], "done") EXCEPT !.sent = 1, !.result = nextMsg,
                                            !.via = "send"]]
  /\ UNCHANGED <<diskOk, links, linksFile, timer, started, cacheVars, embed, boot>>
EnableSent(p) ==
  /\ procs[p].kind = "enable" /\ procs[p].pc = "send"
  /\ nextMsg <= MaxMsgs
  /\ msgs' = [msgs EXCEPT ![nextMsg] = BoardMsg(procs[p].ch)]
  /\ nextMsg' = nextMsg + 1
  /\ EnableReturn([procs[p] EXCEPT !.sent = 1], nextMsg, "send")
  /\ UNCHANGED <<diskOk, links, linksFile, timer, started, cacheVars, embed, boot>>
\* buildBoardEmbed or ch.send threw: the handler reports the failure.
EnableSendFailedRegisters(p) ==
  /\ procs[p].kind = "enable" /\ procs[p].pc = "send"
  /\ SetRegistry(addBoard(Registry, procs[p].ch, 0))
  /\ procs' = [procs EXCEPT ![p] = AtEnd(procs[p], "failed")]
  /\ UNCHANGED <<msgs, nextMsg, diskOk, links, linksFile, timer, started, cacheVars, embed, boot>>
EnableSendFailed(p) ==
  /\ procs[p].kind = "enable" /\ procs[p].pc = "send"
  /\ procs' = [procs EXCEPT ![p] = AtEnd(procs[p], "failed")]
  /\ UNCHANGED <<msgs, nextMsg, registryVars, diskOk, links, linksFile, timer, started, cacheVars, embed, boot>>

\* --------------------------------------------------------- /board-disable
\* boards = boards.filter(b => b.channelId !== i.channelId); the index is
\* rebuilt and the list saved.  Running loops keep the array they started on.
BoardDisableAll(c) ==
  /\ boards' = << >>
  /\ boardsSet' = {}
  /\ boardsFile' = saveJSON(boardsFile, << >>)
  /\ procs' = [p \in 1..started |->
                 IF procs[p].aliased
                 THEN [procs[p] EXCEPT !.aliased = FALSE, !.arr = boards]
                 ELSE procs[p]]
  /\ UNCHANGED <<msgs, nextMsg, diskOk, links, linksFile, timer, started, cacheVars, embed, boot>>
BoardDisableStaleIndex(c) ==
  /\ LET list == SelectSeq(boards, LAMBDA b : b.channelId # c) IN
       /\ boards' = list
       /\ boardsSet' = boardsSet
       /\ boardsFile' = saveJSON(boardsFile, list)
  /\ procs' = [p \in 1..started |->
                 IF procs[p].aliased
                 THEN [procs[p] EXCEPT !.aliased = FALSE, !.arr = boards]
                 ELSE procs[p]]
  /\ UNCHANGED <<msgs, nextMsg, diskOk, links, linksFile, timer, started, cacheVars, embed, boot>>
BoardDisable(c) ==
  /\ LET list == SelectSeq(boards, LAMBDA b : b.channelId # c) IN
       /\ boards' = list
       /\ boardsSet' = KeysOf(list)
       /\ boardsFile' = saveJSON(boardsFile, list)
  /\ procs' = [p \in 1..started |->
                 IF procs[p].aliased
                 THEN [procs[p] EXCEPT !.aliased = FALSE, !.arr = boards]
                 ELSE procs[p]]
  /\ UNCHANGED <<msgs, nextMsg, diskOk, links, linksFile, timer, started, cacheVars, embed, boot>>

\* ------------------------------------------------ discoverBoards (scan)
\* The orders in which guild.channels.fetch() can list the text channels.
ChannelOrders ==
  {o \in [1..Cardinality(Channels) -> Channels] :
     \A c \in Channels : \E k \in DOMAIN o : o[k] = c}

\* /board-scan: deferReply, client.guilds.fetch and guild.channels.fetch
\* answer (ok, listing the text channels in some order) or fail (~ok); then
\* discoverBoards suspends in the first channel's ch.messages.fetch({ limit }).
ScanStart(ok, order) ==
  /\ started < MaxHandlers
  /\ started' = started + 1
  /\ procs' = Append(procs, [NewProc("scan") EXCEPT
       !.self = started + 1,
       !.pc = IF ok THEN "messages" ELSE "failed",
       !.order = IF ok THEN order ELSE << >>, !.idx = IF ok THEN 1 ELSE 0])
  /\ UNCHANGED <<msgs, nextMsg, registryVars, diskOk, links, linksFile, timer, cacheVars, embed, boot>>

\* for (const [, m] of msgs) { ...; addBoard(ch.id, m.id); found++; }
RECURSIVE AddAll(_, _, _)
AddAll(R, c, ids) ==
  IF ids = << >> THEN R ELSE AddAll(addBoard(R, c, Head(ids)), c, Tail(ids))

\* ch.messages.fetch({ limit }) of the channel at order[idx] answered; a
\* failure skips the channel.  After the last channel the scan returns found.
ScanMessagesFetchedAbort(p, ok) ==
  /\ procs[p].kind = "scan" /\ procs[p].pc = "messages"
  /\ LET c == procs[p].order[procs[p].idx]
         marked == IF ok THEN MarkedMine(RecentMessages(c)) ELSE << >>
         R == AddAll(Registry, c, marked)
         last == procs[p].idx = Len(procs[p].order)
     IN /\ SetRegistry(R)
        /\ LET pr == [procs[p] EXCEPT
                        !.idx = @ + 1,
                        !.found = @ + Len(marked),
                        !.added = @ + Len(R.list) - Len(boards),
                        !.skipped = IF ok THEN @ ELSE @ \cup {c}]
           IN procs' = [procs EXCEPT ![p] =
                IF ~ok THEN AtEnd(pr, "failed")
                ELSE IF last THEN AtEnd(pr, "done") ELSE pr]
  /\ UNCHANGED <<msgs, nextMsg, diskOk, links, linksFile, timer, started, cacheVars, embed, boot>>
ScanMessagesFetched(p, ok) ==
  /\ procs[p].kind = "scan" /\ procs[p].pc = "messages"
  /\ LET c == procs[p].order[procs[p].idx]
         marked == IF ok THEN MarkedMine(RecentMessages(c)) ELSE << >>
         R == AddAll(Registry, c, marked)
         last == procs[p].idx = Len(procs[p].order)
     IN /\ SetRegistry(R)
        /\ LET pr == [procs[p] EXCEPT
                        !.idx = @ + 1,
                        !.found = @ + Len(marked),
                        !.added = @ + Len(R.list) - Len(boards),
                        !.skipped = IF ok THEN @ ELSE @ \cup {c}]
           IN procs' = [procs EXCEPT ![p] = IF last THEN AtEnd(pr, "done") ELSE pr]
  /\ UNCHANGED <<msgs, nextMsg, diskOk, links, linksFile, timer, started, cacheVars, embed, boot>>

\* ========================================================= refresh passes
\* A link entry: { main, personal: { channelId, messageId } }; "" is no main
\* and NoPersonal no personal reference.
NoPersonal == [channelId |-> "", messageId |-> 0]
\* links[userId]?.main, "" when there is none
MainOf(userId) ==
  LET S == {k \in 1..Len(links) : links[k].userId = userId}
  IN IF S = {} THEN "" ELSE links[CHOOSE k \in S : TRUE].main
\* the users that have a main
Linked == {links[k].userId : k \in {j \in 1..Len(links) : links[j].main # ""}}

\* refreshAllPersonalOnce: from entry `from` of entries on, skip the entries
\* without personal reference or without main (`continue`), and suspend in
\* wait(EDIT_DELAY_MS) for the first other one; past the last entry, return.
\* entries holds the entry objects of links: /unlink deletes the main of the
\* object itself, so that `info?.main` is the main that object has now (see
\* Mutated).
PersonalFromAll(pr, from) ==
  LET S == {k \in from..Len(pr.entries) : pr.entries[k].personal # NoPersonal}
  IN IF S = {} THEN AtEnd(pr, "done")
     ELSE LET k == CHOOSE x \in S : \A y \in S : x <= y
          IN [pr EXCEPT !.pc = "pwait", !.idx = k, !.cur = pr.entries[k]]
PersonalFrom(pr, from) ==
  LET S == {k \in from..Len(pr.entries) :
              pr.entries[k].personal # NoPersonal /\ pr.entries[k].main # ""}
  IN IF S = {} THEN AtEnd(pr, "done")
     ELSE LET k == CHOOSE x \in S : \A y \in S : x <= y
          IN [pr EXCEPT !.pc = "pwait", !.idx = k, !.cur = pr.entries[k]]

\* refreshAllBoards: the loop `for (const b of boards)` takes the entry at
\* index `from` and suspends in wait(EDIT_DELAY_MS); past the end of the
\* array, refreshAllBoards returns and refreshAllPersonalOnce starts.
BoardsFromAbort(pr, from) ==
  LET arr == IF pr.aliased THEN boards ELSE pr.arr IN
  IF from <= Len(arr) /\ (from = 1 \/ pr.edited[Len(pr.edited)])
  THEN [pr EXCEPT !.pc = "wait", !.idx = from, !.cur = arr[from]]
  ELSE PersonalFrom([pr EXCEPT !.arr = << >>, !.aliased = FALSE,
                               !.entries = links], 1)
BoardsFrom(pr, from) ==
  LET arr == IF pr.aliased THEN boards ELSE pr.arr IN
  IF from <= Len(arr)
  THEN [pr EXCEPT !.pc = "wait", !.idx = from, !.cur = arr[from]]
  ELSE PersonalFrom([pr EXCEPT !.arr = << >>, !.aliased = FALSE,
                               !.entries = links], 1)

\* tick() and the /board-refresh handler: refreshAllBoards() up to its first
\* suspension point.
PassStart(origin) ==
  /\ started < MaxHandlers
  /\ started' = started + 1
  /\ procs' = Append(procs,
       BoardsFrom([NewProc("pass") EXCEPT
                     !.self = started + 1, !.via = origin, !.linked = Linked,
                     !.aliased = TRUE, !.snapshot = boards], 1))

\* function startAutoRefresh(): tick() at once, then setInterval(tick, ...)
StartAutoRefresh ==
  /\ timer = "off"
  /\ timer' = "on"
  /\ PassStart("startup")
  /\ UNCHANGED <<msgs, nextMsg, registryVars, diskOk, links, linksFile, cacheVars, embed, boot>>

\* the interval timer fires: tick()
TimerTick ==
  /\ timer = "on"
  /\ PassStart("timer")
  /\ UNCHANGED <<msgs, nextMsg, registryVars, diskOk, links, linksFile, timer, cacheVars, embed, boot>>

\* /board-refresh arrives: deferReply, refreshAllBoards()
BoardRefresh ==
  /\ PassStart("command")
  /\ UNCHANGED <<msgs, nextMsg, registryVars, diskOk, links, linksFile, timer, cacheVars, embed, boot>>

\* wait(EDIT_DELAY_MS) is over and client.channels.fetch(b.channelId) and
\* ch.messages.fetch(b.messageId), each with .catch(() => null), have answered: without channel or message the target is
\* logged as failed and the loop continues; otherwise buildBoardEmbed and
\* msg.edit follow.
PassFetchedPrune(p, ok) ==
  /\ procs[p].kind = "pass" /\ procs[p].pc = "wait"
  /\ LET b == procs[p].cur
         pr == [procs[p] EXCEPT !.attempted = Append(@, b)]
         there == ok /\ Exists(b.channelId, b.messageId)
         list == SelectSeq(boards, LAMBDA e : e # b)
     IN /\ procs' = [procs EXCEPT ![p] =
             IF there THEN [pr EXCEPT !.pc = "edit"]
             ELSE BoardsFrom([pr EXCEPT !.edited = Append(@, FALSE)], pr.idx + 1)]
        /\ IF there THEN UNCHANGED registryVars
           ELSE /\ boards' = list /\ boardsSet' = KeysOf(list)
                /\ boardsFile' = saveJSON(boardsFile, list)
  /\ UNCHANGED <<msgs, nextMsg, diskOk, links, linksFile, timer, started, cacheVars, embed, boot>>
PassFetchedDetached(p, ok) ==
  /\ procs[p].kind = "pass" /\ procs[p].pc = "wait"
  /\ LET b == procs[p].cur
         pr == [procs[p] EXCEPT !.attempted = Append(@, b)]
     IN procs' = [procs EXCEPT ![p] =
          IF ok /\ Exists(b.channelId, b.messageId)
          THEN BoardsFrom(pr, pr.idx + 1)
          ELSE BoardsFrom([pr EXCEPT !.edited = Append(@, FALSE)], pr.idx + 1)]
  /\ UNCHANGED <<msgs, nextMsg, registryVars, diskOk, links, linksFile, timer, started, cacheVars, embed, boot>>
PassFetched(p, ok) ==
  /\ procs[p].kind = "pass" /\ procs[p].pc = "wait"
  /\ LET b == procs[p].cur
         pr == [procs[p] EXCEPT !.attempted = Append(@, b)]
     IN procs' = [procs EXCEPT ![p] =
          IF ok /\ Exists(b.channelId, b.messageId)
          THEN [pr EXCEPT !.pc = "edit"]
          ELSE BoardsFrom([pr EXCEPT !.edited = Append(@, FALSE)], pr.idx + 1)]
  /\ UNCHANGED <<msgs, nextMsg, registryVars, diskOk, links, linksFile, timer, started, cacheVars, embed, boot>>

\* buildBoardEmbed() and msg.edit answered, or one of them threw (~ok, and
\* always when the message has been deleted meanwhile): the catch logs it.
PassEditedRetry(p, ok) ==
  /\ procs[p].kind = "pass" /\ procs[p].pc = "edit"
  /\ LET b == procs[p].cur
         done == ok /\ Exists(b.channelId, b.messageId)
     IN procs' = [procs EXCEPT ![p] =
          IF done
          THEN BoardsFrom([procs[p] EXCEPT !.edited = Append(@, done)], procs[p].idx + 1)
          ELSE [procs[p] EXCEPT !.pc = "wait", !.attempted = SubSeq(@, 1, Len(@) - 1)]]
  /\ UNCHANGED <<msgs, nextMsg, registryVars, diskOk, links, linksFile, timer, started, cacheVars, embed, boot>>
PassEdited(p, ok) ==
  /\ procs[p].kind = "pass" /\ procs[p].pc = "edit"
  /\ LET b == procs[p].cur
         done == ok /\ Exists(b.channelId, b.messageId)
     IN procs' = [procs EXCEPT ![p] =
          BoardsFrom([procs[p] EXCEPT !.edited = Append(@, done)], procs[p].idx + 1)]
  /\ UNCHANGED <<msgs, nextMsg, registryVars, diskOk, links, linksFile, timer, started, cacheVars, embed, boot>>

\* the same two steps of refreshAllPersonalOnce, on the personal message
PersonalFetched(p, ok) ==
  /\ procs[p].kind = "pass" /\ procs[p].pc = "pwait"
  /\ LET t == procs[p].cur.personal
         pr == [procs[p] EXCEPT !.pattempted = Append(@, procs[p].cur.userId)]
     IN procs' = [procs EXCEPT ![p] =
          IF ok /\ Exists(t.channelId, t.messageId)
          THEN [pr EXCEPT !.pc = "pedit"]
          ELSE PersonalFrom([pr EXCEPT !.pedited = Append(@, FALSE)], pr.idx + 1)]
  /\ UNCHANGED <<msgs, nextMsg, registryVars, diskOk, links, linksFile, timer, started, cacheVars, embed, boot>>

PersonalEdited(p, ok) ==
  /\ procs[p].kind = "pass" /\ procs[p].pc = "pedit"
  /\ LET t == procs[p].cur.personal
         done == ok /\ Exists(t.channelId, t.messageId)
     IN procs' = [procs EXCEPT ![p] =
          PersonalFrom([procs[p] EXCEPT !.pedited = Append(@, done)], procs[p].idx + 1)]
  /\ UNCHANGED <<msgs, nextMsg, registryVars, diskOk, links, linksFile, timer, started, cacheVars, embed, boot>>

\* ------------------------------------------ the provider reads of a render
\* { force: true }, the options every call site of the two builders passes
Forced == [force |-> TRUE]
\* getSiblings(name, opts), getProfile(name, opts), getArkPassive(name, opts):
\* cachedGet(url, opts), as invocation i at time now
getSiblingsCached(i, name, opts, now) ==
  CachedGetStart(i, SiblingsUrl(name), FALSE, now)
getSiblings(i, name, opts, now) ==
  CachedGetStart(i, SiblingsUrl(name), opts.force, now)
getProfile(i, name, opts, now) ==
  CachedGetStart(i, ProfileUrl(name), opts.force, now)
getArkPassive(i, name, opts, now) ==
  CachedGetStart(i, ArkPassiveUrl(name), opts.force, now)

\* A pass suspended in buildBoardEmbed() (pc "edit") reads the siblings of the
\* main of a linked user; one suspended in buildPersonalView (pc "pedit") reads
\* the siblings of the entry's main, then the profile and the ark passive of
\* the character the answer lists first.  The reads are followed in the cache;
\* the pass goes on with PassEdited and PersonalEdited.
BoardReadSiblings(p, i, u, now) ==
  /\ procs[p].kind = "pass" /\ procs[p].pc = "edit"
  /\ MainOf(u) # ""
  /\ getSiblings(i, MainOf(u), Forced, now)
PersonalReadSiblings(p, i, now) ==
  /\ procs[p].kind = "pass" /\ procs[p].pc = "pedit"
  /\ getSiblings(i, procs[p].cur.main, Forced, now)
PersonalReadProfile(p, i, name, now) ==
  /\ procs[p].kind = "pass" /\ procs[p].pc = "pedit"
  /\ getProfile(i, name, Forced, now)
PersonalReadArkPassive(p, i, name, now) ==
  /\ procs[p].kind = "pass" /\ procs[p].pc = "pedit"
  /\ getArkPassive(i, name, Forced, now)

\* ======================================================== the board embed
\* Text is a sequence of characters.  A field of a provider record is a text or
\* is missing (undefined).
Field(t) == [defined |-> TRUE, text |-> t]
Missing == [defined |-> FALSE, text |-> << >>]
\* String(s)
String(s) ==
  IF s.defined THEN s.text ELSE <<"u", "n", "d", "e", "f", "i", "n", "e", "d">>
\* .replace(/,/g, '')
RemoveCommas(t) == SelectSeq(t, LAMBDA ch : ch # ",")

\* A number, in hundredths, or NaN.
NaN == [nan |-> TRUE, v |-> 0]
Num(v) == [nan |-> FALSE, v |-> v]
DigitChars == {"0", "1", "2", "3", "4", "5", "6", "7", "8", "9"}
DigitVal(ch) ==
  CASE ch = "0" -> 0 [] ch = "1" -> 1 [] ch = "2" -> 2 [] ch = "3" -> 3
    [] ch = "4" -> 4 [] ch = "5" -> 5 [] ch = "6" -> 6 [] ch = "7" -> 7
    [] ch = "8" -> 8 [] ch = "9" -> 9
RECURSIVE DigitPrefix(_)
DigitPrefix(t) ==
  IF t # << >> /\ Head(t) \in DigitChars
  THEN <<Head(t)>> \o DigitPrefix(Tail(t)) ELSE << >>
RECURSIVE IntOf(_)
IntOf(ds) ==
  IF ds = << >> THEN 0
  ELSE 10 * IntOf(SubSeq(ds, 1, Len(ds) - 1)) + DigitVal(ds[Len(ds)])
\* parseFloat(t), for texts without sign, exponent and leading blanks: the
\* longest prefix digits[.digits], NaN when it holds no digit.  The value keeps
\* two decimals.
parseFloat(t) ==
  LET ip == DigitPrefix(t)
      rest == SubSeq(t, Len(ip) + 1, Len(t))
      fp == IF rest # << >> /\ Head(rest) = "." THEN DigitPrefix(Tail(rest)) ELSE << >>
      f2 == SubSeq(fp \o <<"0", "0">>, 1, 2)
  IN IF ip = << >> /\ fp = << >> THEN NaN
     ELSE Num(100 * IntOf(ip) + IntOf(f2))
\* const toLevelNum = (s) => parseFloat(String(s).replace(/,/g, '') || '0')
toLevelNum(s) ==
  LET t == RemoveCommas(String(s)) IN parseFloat(IF t = << >> THEN <<"0">> ELSE t)
\* a >= b on numbers: false when either is NaN
Ge(a, b) == ~a.nan /\ ~b.nan /\ a.v >= b.v
\* n || 0 (NaN and undefined are falsy)
OrZero(n) == IF n.nan THEN 0 ELSE n.v

\* chars.reduce((a, b) => toLevelNum(a.ItemAvgLevel) >= toLevelNum(b.ItemAvgLevel) ? a : b)
RECURSIVE Reduce(_, _)
Reduce(a, rest) ==
  IF rest = << >> THEN a
  ELSE Reduce(IF Ge(toLevelNum(a.ItemAvgLevel), toLevelNum(Head(rest).ItemAvgLevel))
              THEN a ELSE Head(rest), Tail(rest))
Best(chars) == Reduce(Head(chars), Tail(chars))

\* A row of the board: { userId, err } or { userId, name, cls, levelStr,
\* levelNum }; err is "" in a data row, and levelNum is NaN where the row has
\* none.  chars keeps the provider's answer the row was made from.
ErrRow(userId, main, err) ==
  [userId |-> userId, main |-> main, err |-> err, name |-> "",
   levelStr |-> Missing, levelNum |-> NaN, chars |-> << >>]
DataRow(userId, main, chars) ==
  LET best == Best(chars) IN
  [userId |-> userId, main |-> main, err |-> "", name |-> best.CharacterName,
   levelStr |-> best.ItemAvgLevel, levelNum |-> toLevelNum(best.ItemAvgLevel),
   chars |-> chars]

\* rows.sort((a, b) => (b.levelNum || 0) - (a.levelNum || 0)); the sort is stable
InsertRowFirst(sorted, r) == <<r>> \o sorted
InsertRow(sorted, r) ==
  LET after == {k \in 1..Len(sorted) :
                  OrZero(sorted[k].levelNum) < OrZero(r.levelNum)}
      at == IF after = {} THEN Len(sorted) + 1
            ELSE CHOOSE k \in after : \A j \in after : k <= j
  IN SubSeq(sorted, 1, at - 1) \o <<r>> \o SubSeq(sorted, at, Len(sorted))
RECURSIVE SortRows(_)
SortRows(rows) ==
  IF rows = << >> THEN << >>
  ELSE InsertRow(SortRows(SubSeq(rows, 1, Len(rows) - 1)), rows[Len(rows)])

\* The provider's sibling records: name and ItemAvgLevel "1,630.00",
\* "1,600.83", "abc", "" and none.
Sibling(name, level) == [CharacterName |-> name, ItemAvgLevel |-> level]
CharPool ==
  { Sibling("Ace", Field(<<"1", ",", "6", "3", "0", ".", "0", "0">>)),
    Sibling("Bow", Field(<<"1", ",", "6", "0", "0", ".", "8", "3">>)),
    Sibling("Cat", Field(<<"a", "b", "c">>)),
    Sibling("Dot", Field(<< >>)),
    Sibling("Eel", Missing) }
\* what getSiblings(main, { force: true }) gives: it throws (~ok), or answers
\* with up to MaxChars different records in some order
Answers ==
  {[ok |-> FALSE, chars |-> << >>]} \cup
  {[ok |-> TRUE, chars |-> cs] :
     cs \in UNION {{f \in [1..n -> CharPool] :
                      \A j, k \in 1..n : j # k => f[j] # f[k]} : n \in 0..MaxChars}}

\* for (const userId of ids): from index `from` on, pass over the ids without
\* main (`continue`) and suspend in wait(API_DELAY_PER_USER_MS) and getSiblings
\* for the first other one; past the last id, sort the rows and render them.
\* seen keeps, per id, the main the loop read.
EmbedFrom(e, from) ==
  LET S == {k \in from..Len(e.ids) : MainOf(e.ids[k]) # ""}
      k == IF S = {} THEN Len(e.ids) + 1 ELSE CHOOSE x \in S : \A y \in S : x <= y
      passed == [j \in 1..(k - from) |-> ""]
  IN IF S = {}
     THEN [e EXCEPT !.pc = "done", !.idx = 0, !.main = "",
                    !.seen = @ \o passed, !.description = SortRows(e.rows)]
     ELSE [e EXCEPT !.pc = "fetch", !.idx = k, !.main = MainOf(e.ids[k]),
                    !.seen = @ \o passed \o <<MainOf(e.ids[k])>>]

\* buildBoardEmbed() is called: ids = Object.keys(links); without ids the
\* description is the text that nobody is registered.
BuildStart ==
  /\ embed.pc \in {"idle", "done"}
  /\ LET ids == [k \in 1..Len(links) |-> links[k].userId]
     IN embed' = IF ids = << >>
                 THEN [NoEmbed EXCEPT !.pc = "done", !.text = "nobody registered"]
                 ELSE EmbedFrom([NoEmbed EXCEPT !.ids = ids], 1)
  /\ UNCHANGED <<msgs, nextMsg, registryVars, diskOk, links, linksFile, timer, procs, started, cacheVars, boot>>

\* getSiblings answered or threw: one row is pushed, the loop goes on
BuildFetchedOmit(ans) ==
  /\ embed.pc = "fetch"
  /\ LET u == embed.ids[embed.idx]
         row == IF ~ans.ok THEN ErrRow(u, embed.main, "error")
                ELSE IF ans.chars = << >> THEN ErrRow(u, embed.main, "not found")
                ELSE DataRow(u, embed.main, ans.chars)
     IN embed' = EmbedFrom([embed EXCEPT !.rows = IF row.err # "" THEN @ ELSE Append(@, row)],
                           embed.idx + 1)
  /\ UNCHANGED <<msgs, nextMsg, registryVars, diskOk, links, linksFile, timer, procs, started, cacheVars, boot>>
BuildFetched(ans) ==
  /\ embed.pc = "fetch"
  /\ LET u == embed.ids[embed.idx]
         row == IF ~ans.ok THEN ErrRow(u, embed.main, "error")
                ELSE IF ans.chars = << >> THEN ErrRow(u, embed.main, "not found")
                ELSE DataRow(u, embed.main, ans.chars)
     IN embed' = EmbedFrom([embed EXCEPT !.rows = Append(@, row)], embed.idx + 1)
  /\ UNCHANGED <<msgs, nextMsg, registryVars, diskOk, links, linksFile, timer, procs, started, cacheVars, boot>>

\* ------------------------------------------------------------------ /unlink
UserIds == {"u1", "u2", "u3"}
\* What a handler holds after the entry object of userId has lost its main in
\* place (`delete cur.main`): the handlers that hold that object see it.
Mutated(pr, userId) ==
  [pr EXCEPT
     !.me = IF pr.live /\ pr.user = userId THEN [@ EXCEPT !.main = ""] ELSE @,
     !.entries = [k \in 1..Len(pr.entries) |->
                    IF pr.entries[k].userId = userId /\ userId \notin pr.stale
                    THEN [pr.entries[k] EXCEPT !.main = ""] ELSE pr.entries[k]]]
\* What a handler holds after links[userId] has been assigned a new object
\* (`links[id] = { ...cur, main }`): it keeps the object it read.
Replaced(pr, userId) ==
  [pr EXCEPT
     !.live = @ /\ pr.user # userId,
     !.stale = IF \E k \in 1..Len(pr.entries) : pr.entries[k].userId = userId
               THEN @ \cup {userId} ELSE @]
\* if (links[i.user.id]?.main) { delete cur.main; ...; saveJSON } : the entry
\* object stays, with its personal reference.  (Without main the handler only
\* replies.)
UnlinkDrop(userId) ==
  /\ MainOf(userId) # ""
  /\ links' = SelectSeq(links, LAMBDA l : l.userId # userId)
  /\ linksFile' = saveJSON(linksFile, links')
  /\ UNCHANGED <<msgs, nextMsg, registryVars, diskOk, timer, procs, started, cacheVars, embed, boot>>
Unlink(userId) ==
  /\ MainOf(userId) # ""
  /\ links' = [k \in 1..Len(links) |->
                 IF links[k].userId = userId THEN [links[k] EXCEPT !.main = ""]
                 ELSE links[k]]
  /\ linksFile' = saveJSON(linksFile, links')
  /\ procs' = [p \in 1..started |-> Mutated(procs[p], userId)]
  /\ UNCHANGED <<msgs, nextMsg, registryVars, diskOk, timer, started, cacheVars, embed, boot>>

\* -------------------------------------------------- /link and /mychars-pin
\* links[userId] || {}
EntryOf(userId) ==
  LET S == {k \in 1..Len(links) : links[k].userId = userId}
  IN IF S = {} THEN [main |-> "", personal |-> NoPersonal]
     ELSE [main |-> links[CHOOSE k \in S : TRUE].main,
           personal |-> links[CHOOSE k \in S : TRUE].personal]
HasEntry(userId) == \E k \in 1..Len(links) : links[k].userId = userId
\* links[userId] = e: an existing key keeps its place, a new one comes last
Put(L, userId, e) ==
  LET r == [userId |-> userId, main |-> e.main, personal |-> e.personal]
  IN IF \E k \in 1..Len(L) : L[k].userId = userId
     THEN [k \in 1..Len(L) |-> IF L[k].userId = userId THEN r ELSE L[k]]
     ELSE Append(L, r)
\* links[userId] = e; saveJSON(LINKS_PATH, links), by handler p, which goes on as pr
StoreLinkUnsaved(p, pr, userId, e) ==
  /\ links' = Put(links, userId, e)
  /\ linksFile' = linksFile
  /\ procs' = [q \in 1..started |->
                 IF q = p THEN [pr EXCEPT !.stored = TRUE]
                 ELSE Replaced(procs[q], userId)]
StoreLink(p, pr, userId, e) ==
  /\ links' = Put(links, userId, e)
  /\ linksFile' = saveJSON(linksFile, links')
  /\ procs' = [q \in 1..started |->
                 IF q = p THEN [pr EXCEPT !.stored = TRUE]
                 ELSE Replaced(procs[q], userId)]

\* what getSiblings(name, { force: true }) of /link gives: a non-empty array,
\* an empty array, something that is no array, or it throws
LinkAnswers == {"list", "empty", "nonlist", "throws"}

\* /link name in channel c by userId: suspended in getSiblings
LinkStart(userId, name, c) ==
  /\ started < MaxHandlers
  /\ started' = started + 1
  /\ procs' = Append(procs, [NewProc("link") EXCEPT
       !.self = started + 1, !.pc = "validate", !.user = userId,
       !.name = name, !.ch = c])
  /\ UNCHANGED <<msgs, nextMsg, registryVars, diskOk, links, linksFile, timer, cacheVars, embed, boot>>

\* getSiblings answered: without a non-empty array the handler replies that
\* the character was not found (or, when it threw, that the call failed);
\* otherwise links[id] = { ...cur, main: name }, saveJSON, and replyMyChars.
LinkValidatedAfterPass(p, ans) ==
  /\ procs[p].kind = "link" /\ procs[p].pc = "validate"
  /\ \A q \in 1..started : procs[q].kind = "pass" => procs[q].pc = "done"
  /\ LET u == procs[p].user IN
       IF ans = "list"
       THEN StoreLink(p, [procs[p] EXCEPT !.pc = "preview"], u,
                      [EntryOf(u) EXCEPT !.main = procs[p].name])
       ELSE /\ procs' = [procs EXCEPT ![p] =
                 AtEnd([procs[p] EXCEPT !.via =
                          IF ans = "throws" THEN "api error" ELSE "not found"], "failed")]
            /\ UNCHANGED <<links, linksFile>>
  /\ UNCHANGED <<msgs, nextMsg, registryVars, diskOk, timer, started, cacheVars, embed, boot>>
LinkValidated(p, ans) ==
  /\ procs[p].kind = "link" /\ procs[p].pc = "validate"
  /\ LET u == procs[p].user IN
       IF ans = "list"
       THEN StoreLink(p, [procs[p] EXCEPT !.pc = "preview"], u,
                      [EntryOf(u) EXCEPT !.main = procs[p].name])
       ELSE /\ procs' = [procs EXCEPT ![p] =
                 AtEnd([procs[p] EXCEPT !.via =
                          IF ans = "throws" THEN "api error" ELSE "not found"], "failed")]
            /\ UNCHANGED <<links, linksFile>>
  /\ UNCHANGED <<msgs, nextMsg, registryVars, diskOk, timer, started, cacheVars, embed, boot>>

\* replyMyChars (buildPersonalView and the reply) returned, and
\* ensurePersonalPinnedInChannel suspends in client.channels.fetch(channelId);
\* or it threw (~ok) and the outer catch replies that the call failed.
LinkPreviewed(p, ok) ==
  /\ procs[p].kind = "link" /\ procs[p].pc = "preview"
  /\ procs' = [procs EXCEPT ![p] =
       IF ok THEN [procs[p] EXCEPT !.pc = "pin"]
       ELSE AtEnd([procs[p] EXCEPT !.via = "api error"], "failed")]
  /\ UNCHANGED <<msgs, nextMsg, registryVars, diskOk, links, linksFile, timer, started, cacheVars, embed, boot>>

\* /mychars-pin in channel c by userId: without main the handler only replies;
\* otherwise deferReply and ensurePersonalPinnedInChannel(c, userId, me.main)
MyCharsPinStart(userId, c) ==
  /\ started < MaxHandlers
  /\ MainOf(userId) # ""
  /\ started' = started + 1
  /\ procs' = Append(procs, [NewProc("pin") EXCEPT
       !.self = started + 1, !.pc = "pin", !.user = userId,
       !.name = MainOf(userId), !.ch = c, !.prior = Finished])
  /\ UNCHANGED <<msgs, nextMsg, registryVars, diskOk, links, linksFile, timer, cacheVars, embed, boot>>

\* ensurePersonalPinnedInChannel threw: /link tells the user to pin by hand
\* and ends normally, /mychars-pin reports the failure.
PinThrew(pr) ==
  IF pr.kind = "link" THEN AtEnd([pr EXCEPT !.via = "pin failed"], "done")
  ELSE AtEnd([pr EXCEPT !.via = "pin failed"], "failed")

\* client.channels.fetch(channelId) answered: me = links[userId] || {},
\* old = me.personal; with an old reference the handler suspends in the fetch
\* of the old message, without one in buildPersonalView and ch.send.
PinChannelFetched(p, ok) ==
  /\ procs[p].kind \in {"link", "pin"} /\ procs[p].pc = "pin"
  /\ LET u == procs[p].user
         me == EntryOf(u)
     IN procs' = [procs EXCEPT ![p] =
          IF ~ok THEN PinThrew(procs[p])
          ELSE [procs[p] EXCEPT !.me = me, !.live = HasEntry(u),
                  !.pc = IF me.personal # NoPersonal THEN "old" ELSE "send"]]
  /\ UNCHANGED <<msgs, nextMsg, registryVars, diskOk, links, linksFile, timer, started, cacheVars, embed, boot>>

\* the fetches of old.channelId and old.messageId, each with
\* .catch(() => null), answered: existing is the old message or null
PinOldFetched(p, ok) ==
  /\ procs[p].kind \in {"link", "pin"} /\ procs[p].pc = "old"
  /\ LET old == procs[p].me.personal
         there == ok /\ Exists(old.channelId, old.messageId)
     IN procs' = [procs EXCEPT ![p] =
          IF there THEN [procs[p] EXCEPT !.pc = "update", !.existing = old.messageId]
          ELSE [procs[p] EXCEPT !.pc = "send"]]
  /\ UNCHANGED <<msgs, nextMsg, registryVars, diskOk, links, linksFile, timer, started, cacheVars, embed, boot>>

\* buildPersonalView and ch.send answered: the platform holds a new personal
\* message; links[userId] = { ...me, personal: { ch.id, msg.id } }; saveJSON.
PinSent(p) ==
  /\ procs[p].kind \in {"link", "pin"} /\ procs[p].pc = "send"
  /\ nextMsg <= MaxMsgs
  /\ msgs' = [msgs EXCEPT ![nextMsg] = PersonalMsg(procs[p].ch)]
  /\ nextMsg' = nextMsg + 1
  /\ StoreLink(p, AtEnd([procs[p] EXCEPT !.via = "created", !.sent = 1,
                                          !.result = nextMsg], "done"),
               procs[p].user,
               [procs[p].me EXCEPT !.personal =
                  [channelId |-> procs[p].ch, messageId |-> nextMsg]])
  /\ UNCHANGED <<registryVars, diskOk, timer, started, cacheVars, embed, boot>>

\* buildPersonalView and existing.edit answered:
\* links[userId] = { ...me, personal: { ch.id, existing.id } }; saveJSON.
PinEdited(p) ==
  /\ procs[p].kind \in {"link", "pin"} /\ procs[p].pc = "update"
  /\ msgs[procs[p].existing].alive
  /\ StoreLink(p, AtEnd([procs[p] EXCEPT !.via = "updated",
                                          !.result = procs[p].existing], "done"),
               procs[p].user,
               [procs[p].me EXCEPT !.personal =
                  [channelId |-> procs[p].ch, messageId |-> procs[p].existing]])
  /\ UNCHANGED <<msgs, nextMsg, registryVars, diskOk, timer, started, cacheVars, embed, boot>>

\* buildPersonalView, ch.send or existing.edit threw
PinFailed(p) ==
  /\ procs[p].kind \in {"link", "pin"} /\ procs[p].pc \in {"send", "update"}
  /\ procs' = [procs EXCEPT ![p] = PinThrew(procs[p])]
  /\ UNCHANGED <<msgs, nextMsg, registryVars, diskOk, links, linksFile, timer, started, cacheVars, embed, boot>>

\* ---------------------------------------------------------------- start-up
JsonKinds == {"absent", "unparsable", "null", "valid"}
\* function loadJSON(file, fallback): JSON.parse(fs.readFileSync(file, 'utf8'))
\* or, when that throws (no file, no JSON text), fallback.  null says that the
\* value is null; content is what the file holds when it is of kind "valid".
loadJSON(kind, content, fallback) ==
  CASE kind \in {"absent", "unparsable"} -> [null |-> FALSE, value |-> fallback]
    [] kind = "null" -> [null |-> TRUE, value |-> << >>]
    [] OTHER -> [null |-> FALSE, value |-> content]

\* The module body: let links = loadJSON(LINKS_PATH, {}); let boards =
\* loadJSON(BOARDS_PATH, []); let boardsSet = new Set(boards.map(...)).
\* boards.map of null throws a TypeError, which ends the process.
Load ==
  /\ boot.pc = "module"
  /\ LET l == loadJSON(boot.linksJson, linksFile, << >>)
         b == loadJSON(boot.boardsJson, boardsFile, << >>)
     IN /\ links' = l.value
        /\ IF b.null
           THEN /\ boot' = [boot EXCEPT !.pc = "crashed", !.linksNull = l.null]
                /\ UNCHANGED <<boards, boardsSet>>
           ELSE /\ boot' = [boot EXCEPT !.pc = "loaded", !.linksNull = l.null]
                /\ boards' = b.value
                /\ boardsSet' = KeysOf(b.value)
  /\ UNCHANGED <<msgs, nextMsg, boardsFile, linksFile, diskOk, timer, procs, started, cacheVars, embed>>

\* loginWithRetry(), the last statement of the module body: let attempt = 0,
\* the loop is entered (attempt < maxTries) and suspends in client.login
LoginStart ==
  /\ boot.pc = "loaded" /\ boot.login = "idle"
  /\ boot' = [boot EXCEPT !.login = IF 0 < maxTries THEN "trying" ELSE "thrown",
                          !.attempt = 0]
  /\ UNCHANGED <<msgs, nextMsg, registryVars, diskOk, links, linksFile, timer, procs, started, cacheVars, embed>>

\* client.login answered: return (the counter goes with the call); or it
\* threw: attempt++, wait(2000 * attempt)
LoginAnswered(ok) ==
  /\ boot.login = "trying"
  /\ boot' = IF ok THEN [boot EXCEPT !.login = "ok", !.attempt = 0]
             ELSE [boot EXCEPT !.login = "waiting", !.attempt = @ + 1]
  /\ UNCHANGED <<msgs, nextMsg, registryVars, diskOk, links, linksFile, timer, procs, started, cacheVars, embed>>

\* the wait is over: while (attempt < maxTries) goes round again, or the loop
\* ends and loginWithRetry throws (the .catch at the call logs it)
LoginWaitedOnceMore ==
  /\ boot.login = "waiting"
  /\ boot' = [boot EXCEPT !.login = IF boot.attempt <= maxTries THEN "trying"
                                    ELSE "thrown"]
  /\ UNCHANGED <<msgs, nextMsg, registryVars, diskOk, links, linksFile, timer, procs, started, cacheVars, embed>>
LoginWaited ==
  /\ boot.login = "waiting"
  /\ boot' = [boot EXCEPT !.login = IF boot.attempt < maxTries THEN "trying"
                                    ELSE "thrown"]
  /\ UNCHANGED <<msgs, nextMsg, registryVars, diskOk, links, linksFile, timer, procs, started, cacheVars, embed>>

\* client.once('ready'), which the client emits once a login has succeeded:
\* registerCommands() has answered or thrown (caught), and discoverBoards()
\* starts as ScanStart does
ReadyStart(ok, order) ==
  /\ boot.pc = "loaded" /\ boot.login = "ok" /\ timer = "off"
  /\ \A p \in 1..started : procs[p].kind # "scan"
  /\ ScanStart(ok, order)

\* discoverBoards() has returned or thrown (caught): startAutoRefresh()
ReadyScanOverOnSuccess ==
  /\ boot.pc = "loaded"
  /\ \E p \in 1..started : procs[p].kind = "scan" /\ procs[p].pc = "done"
  /\ StartAutoRefresh
ReadyScanOver ==
  /\ boot.pc = "loaded"
  /\ \E p \in 1..started : procs[p].kind = "scan" /\ procs[p].pc \in {"done", "failed"}
  /\ StartAutoRefresh

\* ------------------------------------------------------------ environment
\* Somebody deletes a message.
DeleteMessage(m) ==
  /\ msgs[m].alive
  /\ msgs' = [msgs EXCEPT ![m].alive = FALSE, ![m].recent = FALSE]
  /\ UNCHANGED <<nextMsg, registryVars, diskOk, links, linksFile, timer, procs, started, cacheVars, embed, boot>>

\* The volume that holds links.json and boards.json becomes read-only:
\* fs.writeFileSync throws from now on.
VolumeReadOnly ==
  /\ diskOk
  /\ diskOk' = FALSE
  /\ UNCHANGED <<msgs, nextMsg, registryVars, links, linksFile, timer, procs, started, cacheVars, embed, boot>>

\* SCAN_LIMIT_PER_CHANNEL or more messages are posted to channel c by others:
\* every message c holds now is past the window.
Flood(c) ==
  /\ \E m \in MsgIds : Exists(c, m) /\ msgs[m].recent
  /\ msgs' = [m \in MsgIds |->
               IF msgs[m].ch = c THEN [msgs[m] EXCEPT !.recent = FALSE] ELSE msgs[m]]
  /\ UNCHANGED <<nextMsg, registryVars, diskOk, links, linksFile, timer, procs, started, cacheVars, embed, boot>>

\* ------------------------------------------------------- specifications
CacheAtRest ==
  /\ cache = [u \in Endpoints |-> NoEntry]
  /\ clock = 0
  /\ calls = [i \in CallIds |-> NewCall]

\* The state after the module has loaded links.json and boards.json: a first
\* start, a restart that finds its board of channel c1 registered, or a restart
\* that lost boards.json while the board of c1 is still on the platform.
FirstStart ==
  /\ msgs = [m \in MsgIds |-> NoMsg] /\ nextMsg = 1
  /\ boards = << >>
Restart ==
  /\ msgs = [m \in MsgIds |-> IF m = 1 THEN BoardMsg("c1") ELSE NoMsg]
  /\ nextMsg = 2
  /\ boards \in {<< >>, <<[channelId |-> "c1", messageId |-> 1]>>}
NoHandlers ==
  /\ CacheAtRest
  /\ diskOk = TRUE
  /\ timer = "off"
  /\ procs = << >> /\ started = 0
  /\ embed = NoEmbed
  /\ boot = Booted

InitBoards ==
  /\ NoHandlers
  /\ links = << >> /\ linksFile = links
  /\ FirstStart \/ Restart
  /\ boardsSet = KeysOf(boards)
  /\ boardsFile = boards

\* A restart that finds the boards of c1 and c2 and the personal message of
\* user u2 on the platform; user u1 has used /unlink, which keeps the personal
\* reference.  boards.json holds both boards (InitPass) or only the first.
Deployed ==
  /\ NoHandlers
  /\ msgs = [m \in MsgIds |->
       CASE m = 1 -> BoardMsg("c1") [] m = 2 -> BoardMsg("c2")
         [] m = 3 -> PersonalMsg("c1") [] OTHER -> NoMsg]
  /\ nextMsg = 4
  /\ links = << [userId |-> "u1", main |-> "",
                 personal |-> [channelId |-> "c2", messageId |-> 9]],
                [userId |-> "u2", main |-> "Foo",
                 personal |-> [channelId |-> "c1", messageId |-> 3]] >>
  /\ linksFile = links

InitPass ==
  /\ Deployed
  /\ boards = <<[channelId |-> "c1", messageId |-> 1],
                [channelId |-> "c2", messageId |-> 2]>>
  /\ boardsSet = KeysOf(boards)
  /\ boardsFile = boards

\* the same deployment after somebody has deleted the board message of c1
InitStale ==
  /\ NoHandlers
  /\ msgs = [m \in MsgIds |->
       CASE m = 1 -> [BoardMsg("c1") EXCEPT !.alive = FALSE, !.recent = FALSE]
         [] m = 2 -> BoardMsg("c2")
         [] m = 3 -> PersonalMsg("c1") [] OTHER -> NoMsg]
  /\ nextMsg = 4
  /\ links = << [userId |-> "u1", main |-> "",
                 personal |-> [channelId |-> "c2", messageId |-> 9]],
                [userId |-> "u2", main |-> "Foo",
                 personal |-> [channelId |-> "c1", messageId |-> 3]] >>
  /\ linksFile = links
  /\ boards = <<[channelId |-> "c1", messageId |-> 1],
                [channelId |-> "c2", messageId |-> 2]>>
  /\ boardsSet = KeysOf(boards)
  /\ boardsFile = boards

\* the same deployment before /board-enable has been used in channel c2
InitTick ==
  /\ Deployed
  /\ boards = <<[channelId |-> "c1", messageId |-> 1]>>
  /\ boardsSet = KeysOf(boards)
  /\ boardsFile = boards

\* refresh passes, with /board-disable as the only other command
NextPass ==
  \/ StartAutoRefresh
  \/ TimerTick
  \/ BoardRefresh
  \/ \E p \in 1..started, ok \in BOOLEAN : PassFetched(p, ok)
  \/ \E p \in 1..started, ok \in BOOLEAN : PassEdited(p, ok)
  \/ \E p \in 1..started, ok \in BOOLEAN : PersonalFetched(p, ok)
  \/ \E p \in 1..started, ok \in BOOLEAN : PersonalEdited(p, ok)
  \/ \E c \in Channels : BoardDisable(c)

SpecPass == InitPass /\ [][NextPass]_vars
\* the passes while users unlink
NextUnlink ==
  \/ StartAutoRefresh
  \/ TimerTick
  \/ BoardRefresh
  \/ \E p \in 1..started, ok \in BOOLEAN : PassFetched(p, ok)
  \/ \E p \in 1..started, ok \in BOOLEAN : PassEdited(p, ok)
  \/ \E p \in 1..started, ok \in BOOLEAN : PersonalFetched(p, ok)
  \/ \E p \in 1..started, ok \in BOOLEAN : PersonalEdited(p, ok)
  \/ \E u \in UserIds : Unlink(u)

SpecUnlink == InitTick /\ [][NextUnlink]_vars
\* the same with discovery scans (the start-up scan, /board-scan)
NextRescan ==
  \/ NextUnlink
  \/ \E ok \in BOOLEAN, order \in ChannelOrders : ScanStart(ok, order)
  \/ \E p \in 1..started, ok \in BOOLEAN : ScanMessagesFetched(p, ok)

SpecRescan == InitTick /\ [][NextRescan]_vars
\* one pass (the tick of startAutoRefresh) and the provider reads of its renders
NextRender ==
  \/ StartAutoRefresh
  \/ \E p \in 1..started, ok \in BOOLEAN : PassFetched(p, ok)
  \/ \E p \in 1..started, ok \in BOOLEAN : PassEdited(p, ok)
  \/ \E p \in 1..started, ok \in BOOLEAN : PersonalFetched(p, ok)
  \/ \E p \in 1..started, ok \in BOOLEAN : PersonalEdited(p, ok)
  \/ \E p \in 1..started, i \in CallIds, u \in UserIds, d \in ClockSteps :
        BoardReadSiblings(p, i, u, clock + d)
  \/ \E p \in 1..started, i \in CallIds, d \in ClockSteps :
        PersonalReadSiblings(p, i, clock + d)
  \/ \E p \in 1..started, i \in CallIds, n \in Names, d \in ClockSteps :
        PersonalReadProfile(p, i, n, clock + d)
  \/ \E p \in 1..started, i \in CallIds, n \in Names, d \in ClockSteps :
        PersonalReadArkPassive(p, i, n, clock + d)
  \/ \E i \in CallIds : CachedGetResolve(i)
  \/ \E i \in CallIds : CachedGetReject(i)

SpecRender == InitTick /\ [][NextRender]_vars
\* the passes over a registry with a stale entry
SpecStale == InitStale /\ [][NextPass]_vars

\* The tick of startAutoRefresh while commands arrive and messages are
\* deleted, where every external call of the pass eventually returns or fails:
\* an enabled step of a pass is eventually taken.
PassContinues(p) ==
  /\ p <= started
  /\ \/ \E ok \in BOOLEAN : PassFetched(p, ok)
     \/ \E ok \in BOOLEAN : PassEdited(p, ok)
     \/ \E ok \in BOOLEAN : PersonalFetched(p, ok)
     \/ \E ok \in BOOLEAN : PersonalEdited(p, ok)
NextLive ==
  \/ StartAutoRefresh
  \/ \E p \in 1..started : PassContinues(p)
  \/ \E c \in Channels : BoardDisable(c)
  \/ \E u \in UserIds : Unlink(u)
  \/ \E m \in MsgIds : DeleteMessage(m)
SpecLive ==
  InitStale /\ [][NextLive]_vars /\ WF_vars(\E p \in 1..MaxHandlers : PassContinues(p))

\* /link Bar, given in channel c1 by u2 (linked to Foo) and by u3 (never
\* linked), while the tick of startAutoRefresh is under way.  The external calls
\* of the /link handlers eventually return or fail; those of the pass may hang.
LinkContinues(p) ==
  /\ p <= started
  /\ \/ \E ans \in LinkAnswers : LinkValidated(p, ans)
     \/ \E ok \in BOOLEAN : LinkPreviewed(p, ok)
     \/ \E ok \in BOOLEAN : PinChannelFetched(p, ok)
     \/ \E ok \in BOOLEAN : PinOldFetched(p, ok)
     \/ PinSent(p)
     \/ PinEdited(p)
     \/ PinFailed(p)
NextLink ==
  \/ StartAutoRefresh
  \/ \E p \in 1..started : PassContinues(p)
  \/ \E u \in {"u2", "u3"} : LinkStart(u, "Bar", "c1")
  \/ \E p \in 1..started : LinkContinues(p)
SpecLink ==
  InitTick /\ [][NextLink]_vars /\ WF_vars(\E p \in 1..MaxHandlers : LinkContinues(p))

\* the commands that save (/board-enable, /board-disable, /link, /unlink) on
\* a volume that may become read-only
NextDisk ==
  \/ \E ok \in BOOLEAN : BoardEnableStart("c1", ok)
  \/ \E p \in 1..started, ok \in BOOLEAN : EnableEntryFetched(p, ok)
  \/ \E p \in 1..started, ok \in BOOLEAN : EnableWindowFetched(p, ok)
  \/ \E p \in 1..started : EnableSent(p)
  \/ \E p \in 1..started : EnableSendFailed(p)
  \/ BoardDisable("c1")
  \/ LinkStart("u3", "Bar", "c1")
  \/ \E p \in 1..started : LinkContinues(p)
  \/ \E u \in UserIds : Unlink(u)
  \/ VolumeReadOnly
SpecDisk == InitBoards /\ [][NextDisk]_vars

\* The process from the start of the module body on.  The platform holds the
\* boards of c1 and c2 and a personal message; links.json and boards.json are
\* absent, unparsable, null, or hold what the last run saved.
InitModule ==
  /\ CacheAtRest
  /\ diskOk = TRUE /\ timer = "off"
  /\ procs = << >> /\ started = 0
  /\ embed = NoEmbed
  /\ msgs = [m \in MsgIds |->
       CASE m = 1 -> BoardMsg("c1") [] m = 2 -> BoardMsg("c2")
         [] m = 3 -> PersonalMsg("c1") [] OTHER -> NoMsg]
  /\ nextMsg = 4
  /\ links = << >> /\ boards = << >> /\ boardsSet = {}
  /\ \E lk \in JsonKinds, bk \in JsonKinds :
       /\ boot = [pc |-> "module", linksJson |-> lk, boardsJson |-> bk,
                  linksNull |-> FALSE, login |-> "idle", attempt |-> 0]
       /\ linksFile = IF lk = "valid"
                      THEN << [userId |-> "u2", main |-> "Foo",
                               personal |-> [channelId |-> "c1", messageId |-> 3]] >>
                      ELSE << >>
       /\ boardsFile = IF bk = "valid"
                       THEN <<[channelId |-> "c1", messageId |-> 1]>>
                       ELSE << >>
BootContinues ==
  \/ Load
  \/ LoginStart
  \/ \E ok \in BOOLEAN : LoginAnswered(ok)
  \/ LoginWaited
  \/ \E p \in 1..started, ok \in BOOLEAN : ScanMessagesFetched(p, ok)
  \/ ReadyScanOver
NextBoot ==
  \/ BootContinues
  \/ \E ok \in BOOLEAN, order \in ChannelOrders : ReadyStart(ok, order)
  \/ \E p \in 1..started : PassContinues(p)
SpecBoot == InitModule /\ [][NextBoot]_vars /\ WF_vars(BootContinues)

\* /link with its personal pin, /board-enable and discovery scans, from a
\* deployment in which nobody is linked
NextPersonal ==
  \/ LinkStart("u3", "Bar", "c1")
  \/ \E p \in 1..started : LinkContinues(p)
  \/ \E ok \in BOOLEAN : BoardEnableStart("c1", ok)
  \/ \E p \in 1..started, ok \in BOOLEAN : EnableEntryFetched(p, ok)
  \/ \E p \in 1..started, ok \in BOOLEAN : EnableWindowFetched(p, ok)
  \/ \E p \in 1..started : EnableSent(p)
  \/ \E p \in 1..started : EnableSendFailed(p)
  \/ \E ok \in BOOLEAN, o \in ChannelOrders : ScanStart(ok, o)
  \/ \E p \in 1..started, ok \in BOOLEAN : ScanMessagesFetched(p, ok)
SpecPersonal == InitBoards /\ [][NextPersonal]_vars

\* /mychars-pin, given by u2 in either channel, and /link Bar by u2 in c1; u2
\* is linked to Foo and its personal message is in c1
NextPin ==
  \/ \E c \in Channels : MyCharsPinStart("u2", c)
  \/ LinkStart("u2", "Bar", "c1")
  \/ \E p \in 1..started : LinkContinues(p)
SpecPin == InitTick /\ [][NextPin]_vars

\* /board-enable and /board-disable given in channel c1, whose messages are
\* deleted and pushed out of the recent window by others
NextEnsure ==
  \/ \E ok \in BOOLEAN : BoardEnableStart("c1", ok)
  \/ \E p \in 1..started, ok \in BOOLEAN : EnableEntryFetched(p, ok)
  \/ \E p \in 1..started, ok \in BOOLEAN : EnableWindowFetched(p, ok)
  \/ \E p \in 1..started : EnableSent(p)
  \/ \E p \in 1..started : EnableSendFailed(p)
  \/ BoardDisable("c1")
  \/ \E m \in MsgIds : DeleteMessage(m)
  \/ Flood("c1")

SpecEnsure == InitBoards /\ [][NextEnsure]_vars

\* refresh passes together with the commands that change the registry
NextTick ==
  \/ NextPass
  \/ \E c \in Channels, ok \in BOOLEAN : BoardEnableStart(c, ok)
  \/ \E p \in 1..started, ok \in BOOLEAN : EnableEntryFetched(p, ok)
  \/ \E p \in 1..started, ok \in BOOLEAN : EnableWindowFetched(p, ok)
  \/ \E p \in 1..started : EnableSent(p)
  \/ \E p \in 1..started : EnableSendFailed(p)

SpecTick == InitTick /\ [][NextTick]_vars

\* A deployment with three users: u1 and u2 linked, u3 unlinked with its
\* personal reference kept; or one that nobody has used /link in.
InitEmbed ==
  /\ NoHandlers
  /\ msgs = [m \in MsgIds |->
       CASE m = 1 -> BoardMsg("c1") [] m = 2 -> PersonalMsg("c1") [] OTHER -> NoMsg]
  /\ nextMsg = 3
  /\ boards = <<[channelId |-> "c1", messageId |-> 1]>>
  /\ boardsSet = KeysOf(boards)
  /\ boardsFile = boards
  /\ links \in { << >>,
                 << [userId |-> "u1", main |-> "Foo",
                     personal |-> [channelId |-> "c1", messageId |-> 2]],
                    [userId |-> "u2", main |-> "Bar", personal |-> NoPersonal],
                    [userId |-> "u3", main |-> "",
                     personal |-> [channelId |-> "c2", messageId |-> 9]] >> }
  /\ linksFile = links

\* buildBoardEmbed while users unlink
NextEmbed ==
  \/ BuildStart
  \/ \E ans \in Answers : BuildFetched(ans)
  \/ \E u \in UserIds : Unlink(u)

SpecEmbed == InitEmbed /\ [][NextEmbed]_vars

\* the commands that change the registry: /board-enable, /board-disable, /board-scan
NextRegistry ==
  \/ \E c \in Channels, ok \in BOOLEAN : BoardEnableStart(c, ok)
  \/ \E p \in 1..started, ok \in BOOLEAN : EnableEntryFetched(p, ok)
  \/ \E p \in 1..started, ok \in BOOLEAN : EnableWindowFetched(p, ok)
  \/ \E p \in 1..started : EnableSent(p)
  \/ \E p \in 1..started : EnableSendFailed(p)
  \/ \E c \in Channels : BoardDisable(c)
  \/ \E ok \in BOOLEAN, o \in ChannelOrders : ScanStart(ok, o)
  \/ \E p \in 1..started, ok \in BOOLEAN : ScanMessagesFetched(p, ok)

SpecRegistry == InitBoards /\ [][NextRegistry]_vars

\* the module body, which finds links.json as the last run saved it and
\* boards.json absent, null or as saved, then the commands that change the
\* registry
InitIndex ==
  InitModule /\ boot.linksJson = "valid" /\ boot.boardsJson # "unparsable"
NextIndex ==
  \/ Load
  \/ LoginStart
  \/ \E ok \in BOOLEAN : LoginAnswered(ok)
  \/ LoginWaited
  \/ boot.login = "ok" /\ NextRegistry
SpecIndex == InitIndex /\ [][NextIndex]_vars

\* discovery scans (the start-up scan, /board-scan) over a platform whose
\* messages are deleted and pushed out of the recent window by others; the
\* board of c2 and the personal message of c1 are not registered yet
NextScan ==
  \/ \E ok \in BOOLEAN, o \in ChannelOrders : ScanStart(ok, o)
  \/ \E p \in 1..started, ok \in BOOLEAN : ScanMessagesFetched(p, ok)
  \/ \E m \in MsgIds : DeleteMessage(m)
  \/ \E c \in Channels : Flood(c)
SpecScan == InitTick /\ [][NextScan]_vars

\* ================================================== claims on the registry
Enables == {p \in 1..started : procs[p].kind = "enable"}
Scans == {p \in 1..started : procs[p].kind = "scan"}
Passes == {p \in 1..started : procs[p].kind = "pass"}
Links == {p \in 1..started : procs[p].kind = "link"}
Running(p) == procs[p].pc \notin {"done", "failed"}
IsPrefix(s, t) == Len(s) <= Len(t) /\ \A k \in 1..Len(s) : s[k] = t[k]

C37_RescanStep ==
  \A q \in Scans :
    ( /\ procs[q].pc = "messages" /\ procs'[q].idx = procs[q].idx + 1
      /\ \E p \in Scans :
           /\ p # q /\ procs[p].pc = "done"
           /\ procs[q].order[procs[q].idx] \notin procs[p].skipped )
      => /\ registryVars' = registryVars
         /\ procs'[q].added = procs[q].added
C37_ScanIdempotent == [][C37_RescanStep]_vars
\* the first scan has registered what it found in both channels, the second
\* has found the same messages and added none
C37_Witness ==
  \E p, q \in Scans :
    /\ p < q /\ procs[p].pc = "done" /\ procs[q].pc = "done"
    /\ procs[p].skipped = {} /\ procs[q].skipped = {}
    /\ procs[p].added = 2 /\ procs[q].found = 3 /\ procs[q].added = 0
    /\ Len(boards) = 3 /\ boardsSet = KeysOf(boards)

\* C38: the step in which /board-enable fails (client.channels.fetch fails or
\* gives no guild text channel, or buildBoardEmbed or ch.send throws) leaves the
\* registry unchanged and ends the handler with the failure reply, without a
\* message of its own; when it is the channel that fails, no message has been
\* sent, and a failed handler takes no further step.
C38_FailStep ==
  \A p \in 1..started' :
    ( /\ procs'[p].kind = "enable" /\ procs'[p].pc = "failed"
      /\ (p > started \/ procs[p].pc # "failed") )
      => /\ registryVars' = registryVars /\ links' = links
         /\ procs'[p].sent = 0 /\ procs'[p].result = 0
         /\ p > started => platformVars' = platformVars
         /\ p <= started => procs[p].pc = "send"
C38_FailedStays ==
  \A p \in Enables : procs[p].pc = "failed" => procs'[p] = procs[p]
C38_FailureLeavesRegistry == [][C38_FailStep /\ C38_FailedStays]_vars
\* one /board-enable failed at the channel and one at the send, in a channel
\* whose board is not registered: the registry is still empty
C38_Witness ==
  \E p, q \in Enables :
    /\ procs[p].pc = "failed" /\ ~procs[p].flaky
    /\ procs[q].pc = "failed" /\ procs[q].flaky
    /\ boards = << >> /\ boardsSet = {} /\ nextMsg = 1

\* C39: loginWithRetry calls client.login at most maxTries times, makes no
\* call after one has succeeded, and throws only when maxTries calls have
\* failed in a row; no scan or refresh pass starts and the timer is not armed
\* unless a login has succeeded.
LoginTries ==
  boot.attempt + (IF boot.login = "trying" THEN 1 ELSE 0)
C39_Bounded ==
  /\ boot.attempt \in 0..maxTries
  /\ LoginTries <= maxTries
  /\ boot.login = "thrown" => boot.attempt = maxTries
  /\ (started > 0 \/ timer = "on") => boot.login = "ok"
C39_LoginStep ==
  /\ boot.login = "ok" => boot'.login = "ok"
  /\ boot.login = "thrown" => boot'.login = "thrown"
  /\ boot'.login = "ok" => boot.login \in {"ok", "trying"}
  /\ (boot.login # "thrown" /\ boot'.login = "thrown")
       => (boot.login = "waiting" /\ boot.attempt = maxTries)
  /\ (boot.login = "waiting" /\ boot.attempt < maxTries) => boot'.login = "trying"
C39_LoginBounded == []C39_Bounded /\ [][C39_LoginStep]_vars
\* loginWithRetry has thrown after maxTries failed calls: nothing has started
C39_Witness ==
  /\ boot.login = "thrown" /\ boot.attempt = maxTries
  /\ started = 0 /\ timer = "off"
\* the last permitted call is under way after maxTries - 1 failures
LastLoginTry ==
  boot.login = "trying" /\ boot.attempt = maxTries - 1

\* C2: whatever the order of the adds made by /board-enable and by discovery
\* scans, and however often a pair is added again, the registry list never
\* holds two entries with the same (channelId, messageId) pair.
C2_NoDuplicateTargets ==
  \A j, k \in 1..Len(boards) : j # k => boards[j] # boards[k]
\* a finished scan that came upon a registered pair again, in a registry of two
C2_Witness ==
  \E p \in Scans : /\ procs[p].pc = "done"
                   /\ procs[p].found > procs[p].added
                   /\ Len(boards) >= 2

\* C10: the number a discovery scan returns is the number of targets the scan
\* added to the registry; a marked message registered before is not counted.
C10_ScanReturnsAdded ==
  \A p \in Scans : procs[p].pc = "done" => procs[p].found = procs[p].added

\* the marked engine messages channel c holds, all of them there since the
\* start (no /board-enable has sent one or is about to)
ManagedOf(c) == {m \in MsgIds : Exists(c, m) /\ msgs[m].mine /\ hasBoardMarker(msgs[m])}
NothingSent == \A q \in Enables : procs[q].sent = 0 /\ procs[q].pc # "send"
Registered(c, m) ==
  /\ boardsKey(c, m) \in boardsSet
  /\ \E k \in 1..Len(boards) : boards[k] = [channelId |-> c, messageId |-> m]

\* C11: a scan whose ch.messages.fetch fails in channel B and succeeds in
\* channel A, which holds one marked message, returns 1; a failed fetch leaves
\* the count and the registry alone and the scan goes on (it never ends in
\* failure), a successful one leaves every marked message of the channel
\* registered, whichever channel is visited first.
C11_ReturnsOne ==
  \A p \in Scans : \A A, B \in Channels :
    /\ procs[p].pc = "done" /\ A # B /\ procs[p].skipped = {B}
    /\ Cardinality(ManagedOf(A)) = 1 /\ NothingSent
    /\ \A m \in ManagedOf(A) : msgs[m].recent
    => procs[p].found = 1
C11_ChannelStep ==
  \A p \in Scans :
    \A c \in Channels :
    (procs[p].pc = "messages" /\ procs'[p] # procs[p]
       /\ c = procs[p].order[procs[p].idx]) =>
      /\ procs'[p].pc \in {"messages", "done"}
      /\ procs'[p].pc = "done" <=> procs[p].idx = Len(procs[p].order)
      /\ IF c \in procs'[p].skipped
         THEN /\ procs'[p].found = procs[p].found
              /\ registryVars' = registryVars
         ELSE \A m \in ManagedOf(c) : msgs[m].recent => Registered(c, m)'
C11_ScanSkipsFailedLocation ==
  /\ []C11_ReturnsOne
  /\ [][C11_ChannelStep]_vars
\* a finished scan that was refused channel c2 and found and registered the
\* one message of c1
C11_Witness ==
  \E p \in Scans :
    /\ procs[p].pc = "done" /\ procs[p].skipped = {"c2"} /\ procs[p].found = 1
    /\ ManagedOf("c1") = {1} /\ NothingSent /\ Registered("c1", 1)

\* q is the next /board-enable of its channel after p, started after p returned
Successor(p, q) ==
  /\ p \in Enables /\ q \in Enables /\ p < q
  /\ procs[p].ch = procs[q].ch
  /\ procs[p].pc = "done" /\ procs[q].pc = "done"
  /\ p \in procs[q].prior
  /\ \A r \in Enables : p < r /\ r < q => procs[r].ch # procs[p].ch
\* no other handler was in flight while p was
Alone(p) ==
  /\ procs[p].prior = 1..(p - 1)
  /\ \A r \in (p + 1)..started : p \in procs[r].prior
\* message m is inside the recent window of channel c and the engine has put no
\* later marked message into c
NewestMarked(c, m) ==
  /\ msgs[m].recent
  /\ \A n \in MsgIds :
       n > m /\ msgs[n].ch = c => ~(msgs[n].mine /\ hasBoardMarker(msgs[n]))

Quiet(p) == procs[p].prior = 1..(p - 1) /\ started = p
\* a registry entry of channel c whose message is there
LiveEntry(c) ==
  \E k \in 1..Len(boards) :
    boards[k].channelId = c /\ Exists(c, boards[k].messageId)

\* C15: the step in which ensureBoardInChannel resolves.  It returns a
\* registered message of the channel that was fetched, the entries of the
\* channel before it having been tried; or, the entries exhausted, the newest
\* marked engine message of the recent window; or it has sent exactly one new
\* message.  When no fetch of the call failed for another reason than absence
\* and no other handler ran meanwhile, the window is used only if the registry
\* holds no entry of the channel with a fetchable message, and a message is
\* sent only if in addition the window holds no marked engine message.
C15_Resolution ==
  \A p \in Enables : \A c \in Channels :
    (procs[p].pc # "done" /\ procs'[p].pc = "done" /\ c = procs[p].ch) =>
      \E m \in MsgIds :
        /\ m = procs'[p].result
        /\ \/ /\ procs'[p].via = "entry" /\ procs[p].pc = "entry"
              /\ Array(p)[procs[p].idx] = [channelId |-> c, messageId |-> m]
              /\ Exists(c, m)
              /\ procs'[p].sent = 0 /\ msgs' = msgs /\ nextMsg' = nextMsg
              /\ ~procs[p].flaky =>
                   \A k \in 1..(procs[p].idx - 1) :
                     Array(p)[k].channelId = c => ~Exists(c, Array(p)[k].messageId)
           \/ /\ procs'[p].via = "window" /\ procs[p].pc = "window"
              /\ Exists(c, m) /\ msgs[m].recent /\ msgs[m].mine
              /\ hasBoardMarker(msgs[m])
              /\ \A n \in ManagedOf(c) : msgs[n].recent => n <= m
              /\ procs'[p].sent = 0 /\ msgs' = msgs /\ nextMsg' = nextMsg
              /\ (~procs[p].flaky /\ Quiet(p)) => ~LiveEntry(c)
           \/ /\ procs'[p].via = "send" /\ procs[p].pc = "send"
              /\ m = nextMsg /\ nextMsg' = nextMsg + 1
              /\ msgs' = [msgs EXCEPT ![m] = BoardMsg(c)]
              /\ procs'[p].sent = 1
              /\ (~procs[p].flaky /\ Quiet(p)) =>
                   /\ ~LiveEntry(c)
                   /\ \A n \in ManagedOf(c) : ~msgs[n].recent
C16_Frame ==
  \A p \in Enables :
    (procs'[p].pc # procs[p].pc \/ procs'[p].idx # procs[p].idx) =>
      /\ links' = links
      /\ IF procs'[p].pc = "done"
         THEN LET e == [channelId |-> procs[p].ch, messageId |-> procs'[p].result]
              IN IF boardsKey(e.channelId, e.messageId) \in boardsSet
                 THEN registryVars' = registryVars
                 ELSE /\ boards' = Append(boards, e)
                      /\ boardsSet' = boardsSet \cup {boardsKey(e.channelId, e.messageId)}
                      /\ boardsFile' = boards'
         ELSE registryVars' = registryVars
C16_EnsureLeavesRegistry == [][C16_Frame]_vars
\* one call has returned a registered message and a later one a message it
\* sent; the handlers have registered both
C16_Witness ==
  \E p, q \in Enables :
    /\ procs[p].pc = "done" /\ procs[q].pc = "done"
    /\ procs[p].via = "entry" /\ procs[q].via = "send"
    /\ procs[p].result # procs[q].result
    /\ boardsKey(procs[q].ch, procs[q].result) \in boardsSet

\* C17: a step after which an entry of the registry list is gone is the
\* unregister of one channel: the list is the old one without the entries of
\* that channel, in the same order, with the key index and the file following
\* it, and the link store is unchanged; every other step keeps the entries.
EntriesOf(list) == {list[k] : k \in 1..Len(list)}
C17_Frame ==
  (EntriesOf(boards) \ EntriesOf(boards') # {}) =>
    \E c \in Channels :
      /\ \E b \in EntriesOf(boards) : b.channelId = c
      /\ boards' = SelectSeq(boards, LAMBDA b : b.channelId # c)
      /\ boardsSet' = KeysOf(boards')
      /\ boardsFile' = boards'
      /\ links' = links
C17_OnlyUnregisterRemoves == [][C17_Frame]_vars
\* a running loop still walks the array /board-disable has replaced: the
\* entries of one channel are gone from the registry, those of the other not
C17_Witness ==
  \E p \in 1..started : \E c, d \in Channels :
    /\ Running(p) /\ ~procs[p].aliased
    /\ \E k \in 1..Len(procs[p].arr) : procs[p].arr[k].channelId = c
    /\ \A k \in 1..Len(boards) : boards[k].channelId # c
    /\ \E k \in 1..Len(boards) : boards[k].channelId = d
    /\ \A k \in 1..Len(boards) : \E j \in 1..Len(procs[p].arr) : procs[p].arr[j] = boards[k]

\* C4: two ensureBoardInChannel calls for a channel without managed message,
\* overlapping in time, send at most one new message in total.
C4_OverlappingEnsureSendsOnce ==
  \A p, q \in Enables :
    /\ p < q /\ procs[p].ch = procs[q].ch
    /\ p \notin procs[q].prior
    /\ ~procs[p].had /\ ~procs[q].had
    /\ ~procs[p].flaky /\ ~procs[q].flaky
    => procs[p].sent + procs[q].sent <= 1

\* =========================================== claims on the refresh passes
BoardsPhaseOver(p) == procs[p].pc \in {"pwait", "pedit", "done"}

\* C1: at most one refresh pass is running at any time.
C1_OnePassAtATime ==
  Cardinality({p \in Passes : Running(p)}) <= 1

\* C5: the targets a pass processes are exactly the entries the registry held
\* when the pass started.
C5_PassProcessesStartRegistry ==
  \A p \in Passes : BoardsPhaseOver(p) => procs[p].attempted = procs[p].snapshot

\* C6: a pass attempts every target registered at its start, in order and
\* without leaving one out, whatever the outcome of the targets before it, and
\* logs one outcome per attempt.
C6_FailureNeverAborts ==
  \A p \in Passes :
    /\ procs[p].pc \in {"wait", "edit"} =>
         Len(procs[p].attempted) = procs[p].idx - (IF procs[p].pc = "wait" THEN 1 ELSE 0)
    /\ procs[p].pc \in {"wait"} \cup {"pwait", "pedit", "done"} =>
         Len(procs[p].edited) = Len(procs[p].attempted)
    /\ BoardsPhaseOver(p) => IsPrefix(procs[p].snapshot, procs[p].attempted)
\* a finished pass whose first target failed and whose second was edited
C6_Witness ==
  \E p \in Passes :
    /\ procs[p].pc = "done" /\ Len(procs[p].snapshot) = 2
    /\ procs[p].edited = <<FALSE, TRUE>>

\* C19: no step of a refresh pass (its start included) changes the registry
\* list, key index or file; and a target a pass could not fetch, if it is
\* still registered, is attempted by every pass started later that has gone
\* through its targets.
PassStep(p) ==
  \/ procs'[p].pc # procs[p].pc
  \/ procs'[p].attempted # procs[p].attempted
  \/ procs'[p].edited # procs[p].edited
  \/ procs'[p].pattempted # procs[p].pattempted
  \/ procs'[p].pedited # procs[p].pedited
C19_Frame ==
  /\ \A p \in Passes : PassStep(p) => registryVars' = registryVars
  /\ (started' # started /\ procs'[started'].kind = "pass")
       => registryVars' = registryVars
C19_Retried ==
  \A p, q \in Passes :
    (p < q /\ BoardsPhaseOver(p) /\ BoardsPhaseOver(q)) =>
      \A k \in 1..Len(procs[p].attempted) :
        (~procs[p].edited[k] /\ procs[p].attempted[k] \in EntriesOf(boards))
          => \E j \in 1..Len(procs[q].attempted) :
               procs[q].attempted[j] = procs[p].attempted[k]
C19_PassKeepsRegistry == [][C19_Frame]_vars /\ []C19_Retried
\* two finished passes have each failed on the deleted board of c1, which is
\* still registered
C19_Witness ==
  \E p, q \in Passes :
    /\ p < q /\ procs[p].pc = "done" /\ procs[q].pc = "done"
    /\ ~Exists("c1", 1)
    /\ boards = <<[channelId |-> "c1", messageId |-> 1],
                  [channelId |-> "c2", messageId |-> 2]>>
    /\ procs[p].attempted = boards /\ procs[q].attempted = boards
    /\ ~procs[p].edited[1] /\ ~procs[q].edited[1]

\* ================================================ claims on the link store
\* C18: a step that changes the link store is the /unlink of a user who had a
\* main: that entry loses its main and keeps its personal reference, every
\* other entry and the order are as before, and the registry is unchanged.
C18_Frame ==
  links' # links =>
    /\ registryVars' = registryVars
    /\ \E u \in UserIds :
         /\ MainOf(u) # ""
         /\ Len(links') = Len(links)
         /\ \A k \in 1..Len(links) :
              /\ links'[k].userId = links[k].userId
              /\ links'[k].personal = links[k].personal
              /\ links'[k].main = IF links[k].userId = u THEN "" ELSE links[k].main
C18_UnlinkKeepsPersonal == [][C18_Frame]_vars
\* u1 has unlinked: its personal reference is still there, and so are the
\* link of u2 and the registry
C18_Witness ==
  /\ Len(links) = 3 /\ Len(boards) = 1
  /\ links[1] = [userId |-> "u1", main |-> "",
                 personal |-> [channelId |-> "c1", messageId |-> 2]]
  /\ links[2].main = "Bar"

\* C20: a pass started when a user has no main neither fetches nor edits the
\* message that is the user's personal reference, and a pass fetches and edits
\* personal messages of users with a personal reference and a main only.
PersonalOf(userId) ==
  LET S == {k \in 1..Len(links) : links[k].userId = userId}
  IN IF S = {} THEN NoPersonal ELSE links[CHOOSE k \in S : TRUE].personal
C20_UnlinkedUntouched ==
  \A p \in Passes :
    /\ \A j \in 1..Len(procs[p].pattempted) :
         /\ procs[p].pattempted[j] \in procs[p].linked
         /\ PersonalOf(procs[p].pattempted[j]) # NoPersonal
    /\ \A u \in UserIds :
         (u \notin procs[p].linked /\ PersonalOf(u) # NoPersonal) =>
           \A j \in 1..Len(procs[p].attempted) :
             procs[p].attempted[j] # PersonalOf(u)
\* the personal loop alone: every user a pass has attempted in
\* refreshAllPersonalOnce had a main when the pass started and has a personal
\* reference, no user is attempted twice, and a finished pass has attempted
\* every user that has both.
PersonalLoopOnlyLinked ==
  \A p \in Passes :
    /\ \A j \in 1..Len(procs[p].pattempted) :
         /\ procs[p].pattempted[j] \in procs[p].linked
         /\ PersonalOf(procs[p].pattempted[j]) # NoPersonal
         /\ \A k \in 1..Len(procs[p].pattempted) :
              procs[p].pattempted[k] = procs[p].pattempted[j] => k = j
    /\ Len(procs[p].pedited) <= Len(procs[p].pattempted)
    /\ procs[p].pc = "done" =>
         \A u \in Linked :
           PersonalOf(u) # NoPersonal =>
             \E j \in 1..Len(procs[p].pattempted) : procs[p].pattempted[j] = u

Pins == {p \in 1..started : procs[p].kind = "pin"}
\* C31: when /link B of a user has written the link store while an
\* ensurePersonalPinnedInChannel of /mychars-pin for the same user was suspended
\* after reading the entry, the user's main is still B at the step in which that
\* ensurePersonalPinnedInChannel writes the entry and returns.
C31_PinWrites ==
  \A p \in Pins, q \in Links, u \in UserIds :
    ( /\ procs[p].pc \in {"send", "update"} /\ procs'[p].pc = "done"
      /\ procs[p].user = u /\ procs[q].user = u
      /\ procs[q].stored /\ ~procs[p].live /\ MainOf(u) = procs[q].name )
      => MainOf(u)' = procs[q].name
C31_PinKeepsMain == [][C31_PinWrites]_vars

\* C32: the personal reference of a link entry names the channel its message
\* is in: while the message has not been deleted, it can be fetched as
\* (channelId, messageId).
C32_TargetExists ==
  \A k \in 1..Len(links) :
    LET t == links[k].personal IN
    (t # NoPersonal /\ t.messageId \in MsgIds /\ msgs[t.messageId].alive)
      => Exists(t.channelId, t.messageId)

\* C33: an ensurePersonalPinnedInChannel of /mychars-pin that overlaps no other
\* handler sends no message when the personal message its entry names has not
\* been deleted, also when the entry names a channel the message is not in (no
\* request of the call has failed then): it only edits that message.
C33_NoSecondSend ==
  \A p \in Pins :
    LET t == procs[p].me.personal IN
    ~( /\ procs[p].pc = "send" /\ procs'[p].sent = 1
       /\ \A q \in 1..started : q # p => q \in procs[p].prior
       /\ t.messageId \in MsgIds /\ msgs[t.messageId].alive
       /\ ~Exists(t.channelId, t.messageId) )
C33_OneMessage == [][C33_NoSecondSend]_vars
\* the same where the entry names the channel the message is in, and the fetch
\* of the old message has failed
NoSecondSendAfterFailure ==
  \A p \in Pins :
    LET t == procs[p].me.personal IN
    ~( /\ procs[p].pc = "send" /\ procs'[p].sent = 1
       /\ \A q \in 1..started : q # p => q \in procs[p].prior
       /\ Exists(t.channelId, t.messageId) )
OneMessageAfterFailure == [][NoSecondSendAfterFailure]_vars

\* C30: no message that the personal reference of a link entry names is an
\* entry of the board registry.
C30_PersonalNeverRegistered ==
  \A k \in 1..Len(links), j \in 1..Len(boards) :
    links[k].personal # NoPersonal
      => boards[j].messageId # links[k].personal.messageId
\* the registry entry that names a personal message came from a discovery scan
PersonalRegisteredByScan ==
  /\ ~C30_PersonalNeverRegistered
  /\ \E p \in Scans : procs[p].added > 0
  /\ Enables = {}
\* the registry entry that names a personal message came from /board-enable,
\* which took the personal message for the channel's board
PersonalRegisteredByEnable ==
  /\ ~C30_PersonalNeverRegistered
  /\ Scans = {}
  /\ \E p \in Enables : procs[p].pc = "done" /\ procs[p].via = "window"

\* C28: while the writes succeed, links.json holds the link store and
\* boards.json the registry list at every suspension point and between the
\* operations: every step that changes links or boards has saved it.
C28_PersistedIsMemory ==
  diskOk => (linksFile = links /\ boardsFile = boards)
C28_Witness ==
  /\ diskOk
  /\ boards # << >> /\ boardsFile = boards
  /\ \E k \in 1..Len(links) : links[k].main = "" /\ links[k].personal # NoPersonal
  /\ linksFile = links

\* C27: when links.json or boards.json is absent or malformed (no JSON text, or
\* JSON text that is not what saveJSON writes), the module body ends with the
\* default value for it (links empty; boards empty with an empty boardsSet)
\* and without a fatal error.
Default(kind) == kind \in {"absent", "unparsable", "null"}
C27_LoadStep ==
  (boot.pc = "module" /\ boot'.pc # "module") =>
    /\ boot'.pc = "loaded"
    /\ Default(boot.linksJson) => (links' = << >> /\ ~boot'.linksNull)
    /\ Default(boot.boardsJson) => (boards' = << >> /\ boardsSet' = {})
C27_LoadDefaults == [][C27_LoadStep]_vars
\* the same for files that are absent or hold no JSON text, and with the saved
\* value for a file that holds it
LoadDefaultsUnparsable ==
  [][(boot.pc = "module" /\ boot'.pc # "module") =>
       /\ boot.boardsJson # "null" => boot'.pc = "loaded"
       /\ boot.linksJson \in {"absent", "unparsable"}
            => (links' = << >> /\ ~boot'.linksNull)
       /\ boot.boardsJson \in {"absent", "unparsable"}
            => (boards' = << >> /\ boardsSet' = {})
       /\ boot.linksJson = "valid" => links' = linksFile
       /\ boot.boardsJson = "valid"
            => (boards' = boardsFile /\ boardsSet' = KeysOf(boardsFile))]_vars

\* C29: the first refresh pass is started in the step that arms the timer
\* (startAutoRefresh), that step is taken only when the start-up scan has
\* ended, done or failed, and once the start-up scan has begun the timer is
\* eventually armed, also when the scan failed.
C29_NoPassBeforeStart ==
  (timer = "off") => (Passes = {})
C29_ArmStep ==
  (timer = "off" /\ timer' = "on")
    => /\ Scans # {} /\ \A p \in Scans : ~Running(p)
       /\ started' = started + 1
       /\ procs'[started'].kind = "pass" /\ procs'[started'].via = "startup"
       /\ procs'[started'].snapshot = boards
C29_Arms == (Scans # {}) ~> (timer = "on")
C29_FirstPassAfterScan == []C29_NoPassBeforeStart /\ [][C29_ArmStep]_vars /\ C29_Arms
C29_Witness ==
  /\ timer = "on"
  /\ \E p \in Scans : procs[p].pc = "failed"
  /\ \E p \in Passes : procs[p].via = "startup" /\ procs[p].pc = "wait"

\* C26: a write of links.json or boards.json that fails is not raised: the
\* file keeps its content, and the step that saved completes as it does when
\* the write succeeds, with its change of links, boards and boardsSet in effect.
C26_Step ==
  /\ ~diskOk => (boardsFile' = boardsFile /\ linksFile' = linksFile)
  /\ \A p \in Enables :
       (Running(p) /\ procs'[p].pc = "done")
         => /\ \E k \in 1..Len(boards') :
                 boards'[k] = [channelId |-> procs[p].ch,
                               messageId |-> procs'[p].result]
            /\ boardsKey(procs[p].ch, procs'[p].result) \in boardsSet'
  /\ \A p \in Links :
       (procs[p].pc = "validate" /\ procs'[p].pc = "preview")
         => \E k \in 1..Len(links') :
              links'[k].userId = procs[p].user /\ links'[k].main = procs[p].name
  /\ \A p \in Links :
       (procs[p].pc \in {"send", "update"} /\ procs'[p].via \in {"created", "updated"})
         => /\ procs'[p].pc = "done"
            /\ \E k \in 1..Len(links') :
                 /\ links'[k].userId = procs[p].user
                 /\ links'[k].personal =
                      [channelId |-> procs[p].ch, messageId |-> procs'[p].result]
C26_SaveFailureSwallowed == [][C26_Step]_vars
C26_Witness ==
  /\ ~diskOk
  /\ boardsFile # boards /\ boards # << >>
  /\ linksFile # links /\ links # << >>
  /\ \E p \in Enables : procs[p].pc = "done" /\ Registered(procs[p].ch, procs[p].result)
  /\ \E p \in Links : procs[p].pc = "done" /\ procs[p].via = "created"

\* C25: a /link command that has reported a failure to the user (the provider
\* gave an empty or non-list result, or a provider fetch of the command failed)
\* has not written the link store, in memory or on disk.
C25_FailedLinkLeavesStore ==
  \A p \in Links : procs[p].pc = "failed" => ~procs[p].stored
\* the step in which the validating read of /link turns out empty, non-list or
\* failed reports the failure and leaves links and links.json as they are
ValidationFailureLeavesStore ==
  [][\A p \in Links :
       (procs[p].pc = "validate" /\ procs'[p].pc # "validate")
         => \/ procs'[p].pc = "preview"
            \/ /\ procs'[p].pc = "failed"
               /\ procs'[p].via \in {"not found", "api error"}
               /\ links' = links /\ linksFile' = linksFile]_vars

\* C24: a /link handler that waits for the provider's answer goes on as soon
\* as the answer is there, whatever a refresh pass is doing (also when the pass
\* never takes another step), and with a non-empty list it writes the link
\* store in that very step.
C24_Proceeds ==
  \A p \in 1..MaxHandlers :
    (p <= started /\ procs[p].kind = "link" /\ procs[p].pc = "validate")
      ~> (p <= started /\ procs[p].pc # "validate")
C24_Writes ==
  \A p \in Links :
    (procs[p].pc = "validate" /\ procs'[p].pc = "preview")
      => /\ \E k \in 1..Len(links') :
              links'[k].userId = procs[p].user /\ links'[k].main = procs[p].name
         /\ \A q \in Passes : procs'[q].pc = procs[q].pc
C24_LinkNotBlocked == C24_Proceeds /\ [][C24_Writes]_vars
C24_Witness ==
  \E q \in Passes, p \in Links :
    /\ q < p
    /\ procs[q].pc = "wait" /\ procs[q].attempted = << >>
    /\ procs[p].pc = "done" /\ procs[p].via = "created"
    /\ MainOf(procs[p].user) = procs[p].name

\* C23: when every external call eventually returns or fails, every started
\* refresh pass eventually ends (no step of it raises out of the pass), and no
\* command and no start of another handler changes where a running pass is.
C23_Finishes ==
  \A p \in 1..MaxHandlers :
    (p <= started /\ procs[p].kind = "pass") ~> (p <= started /\ procs[p].pc = "done")
C23_NoPreempt ==
  \A p \in Passes :
    (boards' # boards \/ links' # links \/ msgs' # msgs \/ started' # started)
      => /\ procs'[p].pc = procs[p].pc
         /\ procs'[p].idx = procs[p].idx
         /\ procs'[p].cur = procs[p].cur
         /\ procs'[p].attempted = procs[p].attempted
         /\ procs'[p].pattempted = procs[p].pattempted
C23_PassTerminates == C23_Finishes /\ [][C23_NoPreempt]_vars
C23_Witness ==
  \E p \in Passes :
    /\ procs[p].pc = "done"
    /\ procs[p].snapshot # << >> /\ boards = << >>
    /\ Len(procs[p].attempted) = Len(procs[p].snapshot)
    /\ procs[p].pattempted # << >>

\* C22: within one refresh pass at most one target is being processed at a
\* time: a target's processing starts only out of the delay step and when the
\* processing of the target before it has ended (edited or failed), and the
\* personal phase starts only when the board phase is over.
C22_OneAtATime ==
  \A p \in Passes :
    /\ Len(procs[p].attempted) =
         Len(procs[p].edited) + (IF procs[p].pc = "edit" THEN 1 ELSE 0)
    /\ Len(procs[p].pattempted) =
         Len(procs[p].pedited) + (IF procs[p].pc = "pedit" THEN 1 ELSE 0)
    /\ (procs[p].pc \in {"pwait", "pedit"} \/ procs[p].pattempted # << >>)
         => (procs[p].pc \notin {"wait", "edit"}
             /\ Len(procs[p].attempted) = Len(procs[p].edited))
C22_StartsAfterDelay ==
  \A p \in Passes :
    /\ procs'[p].attempted # procs[p].attempted
         => /\ procs[p].pc = "wait"
            /\ Len(procs[p].attempted) = Len(procs[p].edited)
            /\ procs'[p].attempted = Append(procs[p].attempted, procs[p].cur)
    /\ procs'[p].pattempted # procs[p].pattempted
         => /\ procs[p].pc = "pwait"
            /\ Len(procs[p].pattempted) = Len(procs[p].pedited)
            /\ procs'[p].pattempted = Append(procs[p].pattempted, procs[p].cur.userId)
    /\ (procs[p].pc \in {"pwait", "pedit", "done"})
         => procs'[p].pc \in {"pwait", "pedit", "done"}
C22_Sequential == []C22_OneAtATime /\ [][C22_StartsAfterDelay]_vars
C22_Witness ==
  \E p \in Passes :
    /\ procs[p].pc = "pedit"
    /\ Len(procs[p].attempted) = 2 /\ Len(procs[p].edited) = 2
    /\ procs[p].edited[1] /\ ~procs[p].edited[2]

\* C21: every provider read of a render in a refresh pass goes to the provider
\* (force is set: the stored payload is never returned, whatever its age), and
\* when the provider answers, the entry of the url becomes the answer with the
\* read's own timestamp.
C21_Live ==
  \A i \in CallIds : Started(i) => (calls[i].force /\ calls[i].live)
C21_Overwrites ==
  \A i \in CallIds :
    (calls[i].phase = "fetching" /\ calls'[i].phase = "returned")
      => cache'[calls[i].url] = [data |-> calls'[i].data, ts |-> calls[i].now]
C21_RenderReadsLive == []C21_Live /\ [][C21_Overwrites]_vars
C21_Witness ==
  \E i \in CallIds, p \in Passes :
    /\ calls[i].phase = "returned" /\ calls[i].live
    /\ calls[i].seen # NoEntry /\ Age(i) < TTL_MS
    /\ cache[calls[i].url] = [data |-> calls[i].data, ts |-> calls[i].now]
    /\ procs[p].pc = "pedit"

\* ============================================== claims on the board embed
\* the level a record counts with: its number, 0 when non-parseable or missing
LevelValue(s) == OrZero(toLevelNum(s))
RowsOf(userId, rows) == {k \in 1..Len(rows) : rows[k].userId = userId}

\* C36: a board rendered when no user has a main (the link store is empty, or
\* every user has unlinked: the loop read no main) has the text that nobody is
\* registered as its content.
C36_PlaceholderWhenNobodyLinked ==
  (embed.pc = "done" /\ Linked = {} /\ \A k \in 1..Len(embed.seen) : embed.seen[k] = "")
    => embed.text = "nobody registered"

\* C12: the representative of a data row is a record of the identity with the
\* numerically greatest level, a non-parseable or missing level counting as
\* zero, in whatever order the provider lists the records.
C12_RepresentativeIsGreatest ==
  \A k \in 1..Len(embed.rows) :
    embed.rows[k].err = "" =>
      \A j \in 1..Len(embed.rows[k].chars) :
        LevelValue(embed.rows[k].levelStr)
          >= LevelValue(embed.rows[k].chars[j].ItemAvgLevel)

\* C13: the rendered rows are the pushed rows, in non-increasing order of the
\* numeric level of their representative, error rows and rows of non-parseable
\* or missing level counting as 0 and so coming after every positive row.
C13_RowsDescending ==
  embed.pc = "done" =>
    /\ Len(embed.description) = Len(embed.rows)
    /\ \A k \in 1..Len(embed.rows) :
         \E j \in 1..Len(embed.description) : embed.description[j] = embed.rows[k]
    /\ \A j, k \in 1..Len(embed.description) :
         j < k => OrZero(embed.description[j].levelNum)
                    >= OrZero(embed.description[k].levelNum)
    /\ \A j, k \in 1..Len(embed.description) :
         (embed.description[j].err # "" /\ OrZero(embed.description[k].levelNum) > 0)
           => k < j
\* a board whose error row was pushed first and is rendered last
C13_Witness ==
  /\ embed.pc = "done" /\ Len(embed.rows) = 2
  /\ embed.rows[1].err # "" /\ OrZero(embed.rows[2].levelNum) > 0
  /\ embed.description = <<embed.rows[2], embed.rows[1]>>

=============================================================================
